---------------------------- MODULE Spec2Model ----------------------------
(***************************************************************************)
(* Model of the numeral-to-words converter and of the text normaliser of   *)
(* g2p_greek (digits_to_words.py, utils.py).                               *)
(*                                                                         *)
(* A Python str is a sequence of one-character strings, so slicing,        *)
(* strip(), find(), split() and re.sub() are computed character by         *)
(* character as Python computes them.  An exception that leaves a function *)
(* is one of the values ValueError, AssertionError, IndexError: a          *)
(* one-element sequence whose element is not a single character, so it is  *)
(* never equal to a str.                                                   *)
(***************************************************************************)
EXTENDS Integers, Sequences, FiniteSets, TLC

VARIABLES word, out, pc, lexicon_dict, N, first_call

vars == <<word, out, pc, lexicon_dict, N, first_call>>

---------------------------------------------------------------------------
(* Exceptions                                                              *)

ValueError == <<"ValueError">>
AssertionError == <<"AssertionError">>
IndexError == <<"IndexError">>

IsErr(x) == x \in {ValueError, AssertionError, IndexError}

---------------------------------------------------------------------------
(* Python str primitives                                                   *)

\* Characters that str.strip(), str.split() and the regex class \s treat as white space.
whitespace == {" ", "\t", "\n"}

\* Characters for which str.isdigit() holds, within the alphabets of the model.
digit_chars == {"0", "1", "2", "3", "4", "5", "6", "7", "8", "9"}

\* s[i:] with a 0-based Python index i >= 0.
SliceFrom(s, i) == SubSeq(s, i + 1, Len(s))

\* s[:i] with a 0-based Python index i >= 0.
SliceTo(s, i) == SubSeq(s, 1, IF i < Len(s) THEN i ELSE Len(s))

\* s + t, where an exception raised while evaluating s or t (in that order) propagates.
Cat(s, t) == IF IsErr(s) THEN s ELSE IF IsErr(t) THEN t ELSE s \o t

RECURSIVE LStrip(_)
LStrip(s) == IF s # <<>> /\ Head(s) \in whitespace THEN LStrip(Tail(s)) ELSE s

RECURSIVE RStrip(_)
RStrip(s) ==
    IF s # <<>> /\ s[Len(s)] \in whitespace THEN RStrip(SubSeq(s, 1, Len(s) - 1)) ELSE s

\* str.strip()
Strip(s) == IF IsErr(s) THEN s ELSE RStrip(LStrip(s))

\* str.isdigit(): non-empty and every character a digit.
IsDigitStr(s) == s # <<>> /\ \A i \in 1..Len(s) : s[i] \in digit_chars

\* The literal pattern pat occurs in s at 1-based position i.
MatchAt(s, pat, i) ==
    /\ i + Len(pat) - 1 <= Len(s)
    /\ \A j \in 1..Len(pat) : s[i + j - 1] = pat[j]

\* re.sub(pat, rep, s) for a literal, non-empty pattern: leftmost non-overlapping matches.
RECURSIVE ReSubFrom(_, _, _, _)
ReSubFrom(s, pat, rep, i) ==
    IF i > Len(s) THEN <<>>
    ELSE IF MatchAt(s, pat, i) THEN rep \o ReSubFrom(s, pat, rep, i + Len(pat))
    ELSE <<s[i]>> \o ReSubFrom(s, pat, rep, i + 1)

ReSub(pat, rep, s) == IF IsErr(s) THEN s ELSE ReSubFrom(s, pat, rep, 1)

\* re.sub(r"\s+", " ", s): every maximal run of white space becomes one space.
RECURSIVE CollapseSpaces(_)
CollapseSpaces(s) ==
    IF s = <<>> THEN <<>>
    ELSE IF Head(s) \in whitespace
         THEN <<" ">> \o CollapseSpaces(LStrip(s))
         ELSE <<Head(s)>> \o CollapseSpaces(Tail(s))

\* str.find(c): 0-based index of the first occurrence of the character c, or -1.
RECURSIVE FindFrom(_, _, _)
FindFrom(s, c, i) ==
    IF i > Len(s) THEN -1 ELSE IF s[i] = c THEN i - 1 ELSE FindFrom(s, c, i + 1)

Find(s, c) == FindFrom(s, c, 1)

\* str.split(sep) for a one-character separator: empty fields are kept.
RECURSIVE SplitOn(_, _)
SplitOn(s, sep) ==
    LET k == Find(s, sep)
    IN  IF k = -1 THEN <<s>> ELSE <<SliceTo(s, k)>> \o SplitOn(SliceFrom(s, k + 1), sep)

\* The first white-space-delimited field of a string that starts with a non-space character.
RECURSIVE TakeField(_)
TakeField(s) ==
    IF s = <<>> \/ Head(s) \in whitespace THEN <<>> ELSE <<Head(s)>> \o TakeField(Tail(s))

\* str.split(): fields separated by runs of white space, no empty field.
RECURSIVE Split(_)
Split(s) ==
    LET t == LStrip(s)
    IN  IF t = <<>> THEN <<>>
        ELSE LET f == TakeField(t) IN <<f>> \o Split(SliceFrom(t, Len(f)))

\* The elements of a sequence, as a set.
Range(s) == {s[i] : i \in 1..Len(s)}

\* Lower-case letters of the Latin and Greek alphabets (those that re matches with \w besides digits, capitals and "_").
lower_letters ==
    {"a", "b", "c", "d", "e", "f", "g", "h", "i", "j", "k", "l", "m", "n", "o", "p", "q", "r", "s", "t", "u", "v", "w", "x", "y", "z",
     "α", "β", "γ", "δ", "ε", "ζ", "η", "θ", "ι", "κ", "λ", "μ", "ν", "ξ", "ο", "π", "ρ", "ς", "σ", "τ", "υ", "φ", "χ", "ψ", "ω", "ά", "έ", "ή", "ί", "ό", "ύ", "ώ", "ϊ", "ϋ", "ΐ", "ΰ"}

\* str.lower() on one character: the Latin and Greek capitals (final-sigma contextual rule not applicable to a single character).
lower_map ==
       "A" :> "a"
    @@ "B" :> "b"
    @@ "C" :> "c"
    @@ "D" :> "d"
    @@ "E" :> "e"
    @@ "F" :> "f"
    @@ "G" :> "g"
    @@ "H" :> "h"
    @@ "I" :> "i"
    @@ "J" :> "j"
    @@ "K" :> "k"
    @@ "L" :> "l"
    @@ "M" :> "m"
    @@ "N" :> "n"
    @@ "O" :> "o"
    @@ "P" :> "p"
    @@ "Q" :> "q"
    @@ "R" :> "r"
    @@ "S" :> "s"
    @@ "T" :> "t"
    @@ "U" :> "u"
    @@ "V" :> "v"
    @@ "W" :> "w"
    @@ "X" :> "x"
    @@ "Y" :> "y"
    @@ "Z" :> "z"
    @@ "Α" :> "α"
    @@ "Β" :> "β"
    @@ "Γ" :> "γ"
    @@ "Δ" :> "δ"
    @@ "Ε" :> "ε"
    @@ "Ζ" :> "ζ"
    @@ "Η" :> "η"
    @@ "Θ" :> "θ"
    @@ "Ι" :> "ι"
    @@ "Κ" :> "κ"
    @@ "Λ" :> "λ"
    @@ "Μ" :> "μ"
    @@ "Ν" :> "ν"
    @@ "Ξ" :> "ξ"
    @@ "Ο" :> "ο"
    @@ "Π" :> "π"
    @@ "Ρ" :> "ρ"
    @@ "Σ" :> "σ"
    @@ "Τ" :> "τ"
    @@ "Υ" :> "υ"
    @@ "Φ" :> "φ"
    @@ "Χ" :> "χ"
    @@ "Ψ" :> "ψ"
    @@ "Ω" :> "ω"
    @@ "Ά" :> "ά"
    @@ "Έ" :> "έ"
    @@ "Ή" :> "ή"
    @@ "Ί" :> "ί"
    @@ "Ό" :> "ό"
    @@ "Ύ" :> "ύ"
    @@ "Ώ" :> "ώ"

\* __basic_substitutes, in insertion order: <<key, value>> pairs as written in the source (keys are lowercased by process_word).
basic_substitutes ==
    <<
      <<<<"4","k">>, <<"φ","ο","ρ"," ","κ","έ","ι">>>>,
      <<<<"λ","ο","ι","π","ο","ν">>, <<"λ","ο","ι","π","ό","ν">>>>,
      <<<<"$">>, <<"δ","ο","λ","λ","ά","ρ","ι","α">>>>,
      <<<<"€">>, <<"ε","υ","ρ","ώ">>>>,
      <<<<"&">>, <<"κ","α","ι">>>>,
      <<<<"@">>, <<"π","α","π","ά","κ","ι">>>>,
      <<<<"#">>, <<"δ","ί","ε","σ","η">>>>,
      <<<<"%">>, <<"τ","ο","ι","ς"," ","ε","κ","α","τ","ό">>>>,
      <<<<",">>, <<"κ","ό","μ","μ","α">>>>,
      <<<<"α","π","ο">>, <<"α","π","ό">>>>,
      <<<<"μ","ι","α">>, <<"μ","ί","α">>>>,
      <<<<"π","ο","ι","ο","ς">>, <<"π","ο","ι","ό","ς">>>>,
      <<<<"π","ο","ι","α">>, <<"π","ο","ι","ά">>>>,
      <<<<"π","ο","ι","ο">>, <<"π","ο","ι","ό">>>>,
      <<<<"π","ι","ο">>, <<"π","ι","ό">>>>,
      <<<<"γ","ε","ι","α">>, <<"γ","ε","ι","ά">>>>,
      <<<<"γ","ι","α">>, <<"γ","ι","ά">>>>,
      <<<<"δ","υ","ο">>, <<"δ","ύ","ο">>>>,
      <<<<"τ","ρ","ι","α">>, <<"τ","ρ","ί","α">>>>,
      <<<<"ο","κ">>, <<"ο","κ","έ","ι">>>>,
      <<<<"o","k","a","y">>, <<"ο","κ","έ","ι">>>>,
      <<<<"o","k">>, <<"ο","κ","έ","ι">>>>,
      <<<<"Κ","Τ","Ε","Ο">>, <<"κ","τ","έ","ο">>>>,
      <<<<"Ε","Ο","Π","Υ","Υ">>, <<"ε","ο","π","ύ">>>>,
      <<<<"Φ","Π","Α">>, <<"φ","ι","π","ι","ά">>>>,
      <<<<"Φ",".","Π",".","Α",".">>, <<"φ","ι","π","ι","ά">>>>,
      <<<<"V","I","P">>, <<"β","ι"," ","ά","ι"," ","π","ι">>>>,
      <<<<"Α","Φ","Μ">>, <<"α","φ","ι","μ","ί">>>>,
      <<<<"Α",".","Φ",".","Μ",".">>, <<"α","φ","ι","μ","ί">>>>,
      <<<<"Α",".","Φ",".","Μ">>, <<"α","φ","ι","μ","ί">>>>,
      <<<<"S","M","S">>, <<"ε","σ","ε","μ","έ","ς">>>>,
      <<<<"Α","Μ","Κ","Α">>, <<"ά","μ","κ","α">>>>,
      <<<<"Α",".","Μ",".","Κ",".","Α",".">>, <<"ά","μ","κ","α">>>>,
      <<<<"Α",".","Μ",".","Κ",".","Α">>, <<"ά","μ","κ","α">>>>,
      <<<<"s","e","r","v","i","c","e">>, <<"σ","έ","ρ","β","ι","ς">>>>,
      <<<<"c","o","u","r","i","e","r">>, <<"κ","ο","ύ","ρ","ι","ε","ρ">>>>,
      <<<<"c","l","u","b">>, <<"κ","λ","ά","μ","π">>>>,
      <<<<"p","o","r","t","a","l">>, <<"π","ό","ρ","τ","α","λ">>>>,
      <<<<"a","p","p">>, <<"ά","π">>>>,
      <<<<"m","o","b","i","l","e">>, <<"μ","ο","μ","π","ά","ι","λ">>>>,
      <<<<"u","s","e","r","n","a","m","e">>, <<"γ","ι","ο","ύ","ζ","ε","ρ","ν","ε","ι","μ">>>>,
      <<<<"p","a","s","s","w","o","r","d">>, <<"π","α","σ","γ","ο","υ","ό","ρ","ν","τ">>>>,
      <<<<"l","a","r","g","e">>, <<"λ","ά","ρ","τ","ζ">>>>,
      <<<<"m","e","d","i","u","m">>, <<"μ","ί","ν","τ","ι","ο","υ","μ">>>>,
      <<<<"s","m","a","l","l">>, <<"σ","μ","ό","λ">>>>,
      <<<<"b","y","e">>, <<"μ","π","ά","ι">>>>,
      <<<<"t","h","a","n","k">>, <<"θ","ε","ν","κ">>>>,
      <<<<"t","h","a","n","k","s">>, <<"θ","ε","ν","κ","ς">>>>,
      <<<<"y","o","u">>, <<"γ","ι","ο","υ">>>>,
      <<<<"y","e","s">>, <<"γ","ι","έ","ς">>>>,
      <<<<"m","y">>, <<"μ","ά","ι">>>>,
      <<<<"t","o","y","o","t","a">>, <<"τ","ο","γ","ι","ό","τ","α">>>>,
      <<<<"h","y","u","n","d","a","i">>, <<"χ","ι","ο","υ","ν","τ","ά","ι">>>>,
      <<<<"v","i","b","e","r">>, <<"β","ά","ι","μ","π","ε","ρ">>>>,
      <<<<"Y","a","m","a","h","a">>, <<"γ","ι","α","μ","ά","χ","α">>>>,
      <<<<"G","a","n","t">>, <<"γ","κ","ά","ν","τ">>>>,
      <<<<"P","u","b","l","i","c">>, <<"π","ά","μ","π","λ","ι","κ">>>>,
      <<<<"o","n","l","i","n","e">>, <<"ο","ν","λ","ά","ι","ν">>>>,
      <<<<"w","e","b">>, <<"γ","ο","υ","έ","μ","π">>>>,
      <<<<"s","i","t","e">>, <<"σ","ά","ι","τ">>>>,
      <<<<"w","e","b","s","i","t","e">>, <<"γ","ο","υ","έ","μ","π","σ","α","ι","τ">>>>,
      <<<<"g","r">>, <<"τ","ζ","ι"," ","α","ρ">>>>,
      <<<<"w","w","w">>, <<"ν","τ","ά","μ","π","λ"," ","γ","ι","ο","ύ"," ","ν","τ","ά","μ","π","λ"," ","γ","ι","ο","υ"," ","ν","τ","ά","μ","π","λ"," ","γ","ι","ο","ύ">>>>,
      <<<<"c","o","m">>, <<"κ","ό","μ">>>>,
      <<<<"e","m","a","i","l">>, <<"ι","μ","έ","ι","λ">>>>,
      <<<<"e","-","m","a","i","l">>, <<"ι","μ","έ","ι","λ">>>>
    >>

---------------------------------------------------------------------------
(* utils.py: process_word                                                  *)

\* The characters U+2022 (bullet) and U+2219 (bullet operator), written by their code points.
bullet == "U+2022"
bullet_operator == "U+2219"

\* utils.punctuation
punctuation == <<";", "!", ":", bullet_operator, "»", ",">>

lower_char(c) == IF c \in DOMAIN lower_map THEN lower_map[c] ELSE c

\* str.lower()
Lower(s) == [i \in 1..Len(s) |-> lower_char(s[i])]

\* Characters the regex class \w matches, within the alphabets of the model.
word_chars == lower_letters \cup DOMAIN lower_map \cup digit_chars \cup {"_"}

\* The keys of __basic_substitutes after "key = key.lower()".
substitute_keys == [j \in 1..Len(basic_substitutes) |-> Lower(basic_substitutes[j][1])]

\* The key, used as a regular expression, matches s at 1-based position i: the
\* only metacharacter in a key is ".", which matches any character but a
\* newline ("$" is escaped by process_word and so is literal).
key_match_at(s, key, i) ==
    /\ i + Len(key) - 1 <= Len(s)
    /\ \A j \in 1..Len(key) :
          IF key[j] = "." THEN s[i + j - 1] # "\n" ELSE s[i + j - 1] = key[j]

\* re.sub(key, rep, s) for a key of __basic_substitutes.
RECURSIVE key_sub_from(_, _, _, _)
key_sub_from(s, key, rep, i) ==
    IF i > Len(s) THEN <<>>
    ELSE IF key_match_at(s, key, i) THEN rep \o key_sub_from(s, key, rep, i + Len(key))
    ELSE <<s[i]>> \o key_sub_from(s, key, rep, i + 1)

\* The loop over __basic_substitutes.items() from the j-th item on: the next
\* key that is a white-space field or a "."-field of the lowered word rewrites
\* the word, and the loop goes on with the rewritten word.
\* The white-space fields and the "."-fields of a lowered word.
fields_of(lw) == Range(Split(lw)) \cup Range(SplitOn(lw, "."))

\* The items from the j-th on whose key is among the fields.
hits_from(j, fields) == {k \in j..Len(basic_substitutes) : substitute_keys[k] \in fields}

\* The first item of a non-empty set of items.
first_hit(hits) == CHOOSE x \in hits : \A y \in hits : x <= y

\* The word after the k-th item has been applied to it.
substitute(k, w) ==
    key_sub_from(Strip(Lower(w)), substitute_keys[k],
                 <<" ">> \o basic_substitutes[k][2] \o <<" ">>, 1)

RECURSIVE substitute_hits(_, _)
substitute_hits(hits, w) ==
    IF hits = {} THEN w
    ELSE substitute_hits(hits_from(first_hit(hits) + 1, fields_of(Lower(substitute(first_hit(hits), w)))),
                         substitute(first_hit(hits), w))

substitute_from(j, w) == substitute_hits(hits_from(j, fields_of(Lower(w))), w)

\* re.sub of a set of single characters: each one becomes rep.
RECURSIVE sub_chars(_, _, _)
sub_chars(s, chars, rep) ==
    IF s = <<>> THEN <<>>
    ELSE (IF Head(s) \in chars THEN rep ELSE <<Head(s)>>) \o sub_chars(Tail(s), chars, rep)

\* The "for char in punctuation" loop: each punctuation character gets a space on both sides.
RECURSIVE space_punctuation(_, _)
space_punctuation(s, j) ==
    IF j > Len(punctuation) THEN s
    ELSE space_punctuation(
             sub_chars(s, {punctuation[j]}, <<" ", punctuation[j], " ">>), j + 1)

\* re.sub(r"[^\w\d]", " ", s): every character that is neither a letter, a digit nor "_" becomes a space.
keep_chars_and_digits(s) == [i \in 1..Len(s) |-> IF s[i] \in word_chars THEN s[i] ELSE " "]

\* The else branch: newlines, tabs and punctuation get a space on both sides.
space_separators(s) ==
    space_punctuation(
        sub_chars(sub_chars(s, {"\n"}, <<" ", "\n", " ">>), {"\t"}, <<" ", "\t", " ">>), 1)

\* The word after strip() and the optional lower().
stripped(w, to_lower) == IF to_lower THEN Lower(Strip(w)) ELSE Strip(w)

\* The three substitutions after the loop: ".", "?" and the bullets.
separate_sentence_marks(s) ==
    sub_chars(sub_chars(sub_chars(s, {"."}, <<" ", ".", " ">>), {"?"}, <<" ", "?", " ">>),
              {bullet, bullet_operator, "»"}, <<" ">>)

\* The end of process_word, from the word after the substitutions.
finish_word(s, keep_only_chars_and_digits) ==
    Strip(CollapseSpaces(IF keep_only_chars_and_digits
                         THEN keep_chars_and_digits(s)
                         ELSE space_separators(s)))

process_word(w, keep_only_chars_and_digits, to_lower) ==
    finish_word(separate_sentence_marks(substitute_from(1, stripped(w, to_lower))),
                keep_only_chars_and_digits)

---------------------------------------------------------------------------
(* utils.py: handle_commas and handle_hours                                *)

\* s[i] is defined for the Python index i (negative indices count from the end).
InRange(s, i) == -Len(s) <= i /\ i < Len(s)

\* s[i] for a Python index i in range.
At(s, i) == s[(IF i < 0 THEN i + Len(s) ELSE i) + 1]

\* One pass of the "ignore spaces" block: the space before the comma index is
\* removed (and the index moves back), then the space after it is removed; an
\* IndexError on the second test is swallowed, one on the first test is not.
ignore_spaces(w, comma_index) ==
    IF ~InRange(w, comma_index - 1) THEN [err |-> TRUE, w |-> w, ci |-> comma_index]
    ELSE LET before == At(w, comma_index - 1) = " "
             w1 == IF before THEN SliceTo(w, comma_index - 1) \o SliceFrom(w, comma_index)
                   ELSE w
             ci == IF before THEN comma_index - 1 ELSE comma_index
             w2 == IF InRange(w1, ci + 1) /\ At(w1, ci + 1) = " "
                   THEN SliceTo(w1, ci + 1) \o SliceFrom(w1, ci + 2)
                   ELSE w1
         IN  [err |-> FALSE, w |-> w2, ci |-> ci]

\* The body of the while loop of handle_commas from a word that contains a comma.
RECURSIVE comma_loop(_)
comma_loop(w) ==
    LET comma_index == Find(w, ",")
    IN  IF comma_index = -1 THEN w
        ELSE IF comma_index = 0 THEN comma_loop(SliceFrom(w, 1))
        ELSE IF comma_index = Len(w) - 1
             THEN IF At(w, comma_index - 1) \in digit_chars
                  THEN comma_loop(ReSub(<<",">>, <<" ", "κ", "ό", "μ", "μ", "α">>, w))
                  ELSE comma_loop(ReSub(<<",">>, <<>>, w))
        ELSE LET r == ignore_spaces(CollapseSpaces(w), comma_index)
                 ci == r.ci
             IN  IF r.err THEN IndexError
                 ELSE IF ~InRange(r.w, ci - 1)
                         \/ (At(r.w, ci - 1) \in digit_chars /\ ~InRange(r.w, ci + 1))
                      THEN \* except IndexError: word = word[comma_index-1]; break
                           IF InRange(r.w, ci - 1) THEN <<At(r.w, ci - 1)>> ELSE IndexError
                 ELSE IF At(r.w, ci - 1) \in digit_chars /\ At(r.w, ci + 1) \in digit_chars
                      THEN comma_loop(SliceTo(r.w, ci) \o <<" ", "κ", "ό", "μ", "μ", "α", " ">> \o SliceFrom(r.w, ci + 1))
                      ELSE comma_loop(SliceTo(r.w, ci) \o <<" ">> \o SliceFrom(r.w, ci + 1))

handle_commas(w) == comma_loop(w)

handle_hours(w) ==
    IF ":" \notin Range(w) THEN w
    ELSE LET parts == SplitOn(w, ":")
         IN  IF Len(parts) # 2 \/ <<>> \in Range(parts)
             THEN Strip(ReSub(<<":">>, <<" ">>, w))
             ELSE LET w1 == ReSub(<<":">>, <<" ", "κ", "α", "ι", " ">>, w)
                  IN  IF parts[2] = <<"1", "5">> THEN ReSub(<<"1", "5">>, <<"τ", "έ", "τ", "α", "ρ", "τ", "ο">>, w1)
                      ELSE IF parts[2] = <<"3", "0">> THEN ReSub(<<"3", "0">>, <<"μ", "ι", "σ", "ή">>, w1)
                      ELSE w1

\* _prefixes["1digit"]: the word of each single digit.
prefixes_1digit ==
       <<"0">> :> <<"μ","η","δ","έ","ν">>
    @@ <<"1">> :> <<"έ","ν","α">>
    @@ <<"2">> :> <<"δ","ύ","ο">>
    @@ <<"3">> :> <<"τ","ρ","ί","α">>
    @@ <<"4">> :> <<"τ","έ","σ","σ","ε","ρ","α">>
    @@ <<"5">> :> <<"π","έ","ν","τ","ε">>
    @@ <<"6">> :> <<"έ","ξ","ι">>
    @@ <<"7">> :> <<"ε","φ","τ","ά">>
    @@ <<"8">> :> <<"ο","χ","τ","ώ">>
    @@ <<"9">> :> <<"ε","ν","ν","ι","ά">>

\* _prefixes["2digit"]: exact words for 10, 11, 12 and the round tens; one-character keys give the unaccented stem used before a ones word.
prefixes_2digit ==
       <<"1","0">> :> <<"δ","έ","κ","α">>
    @@ <<"1","1">> :> <<"έ","ν","τ","ε","κ","α">>
    @@ <<"1","2">> :> <<"δ","ώ","δ","ε","κ","α">>
    @@ <<"1">> :> <<"δ","ε","κ","α">>
    @@ <<"2","0">> :> <<"ε","ί","κ","ο","σ","ι">>
    @@ <<"2">> :> <<"ε","ι","κ","ο","σ","ι">>
    @@ <<"3","0">> :> <<"τ","ρ","ι","ά","ν","τ","α">>
    @@ <<"3">> :> <<"τ","ρ","ι","α","ν","τ","α">>
    @@ <<"4","0">> :> <<"σ","α","ρ","ά","ν","τ","α">>
    @@ <<"4">> :> <<"σ","α","ρ","α","ν","τ","α">>
    @@ <<"5","0">> :> <<"π","ε","ν","ή","ν","τ","α">>
    @@ <<"5">> :> <<"π","ε","ν","η","ν","τ","α">>
    @@ <<"6","0">> :> <<"ε","ξ","ή","ν","τ","α">>
    @@ <<"6">> :> <<"ε","ξ","η","ν","τ","α">>
    @@ <<"7","0">> :> <<"ε","β","δ","ο","μ","ή","ν","τ","α">>
    @@ <<"7">> :> <<"ε","β","δ","ο","μ","η","ν","τ","α">>
    @@ <<"8","0">> :> <<"ο","γ","δ","ό","ν","τ","α">>
    @@ <<"8">> :> <<"ο","γ","δ","ο","ν","τ","α">>
    @@ <<"9","0">> :> <<"ε","ν","ε","ν","ή","ν","τ","α">>
    @@ <<"9">> :> <<"ε","ν","ε","ν","η","ν","τ","α">>

\* _prefixes["3digit"]: exact words for the round hundreds; one-character keys give the stem used before a remainder.
prefixes_3digit ==
       <<"1","0","0">> :> <<"ε","κ","α","τ","ό">>
    @@ <<"1">> :> <<"ε","κ","α","τ","ο","ν">>
    @@ <<"2","0","0">> :> <<"δ","ι","α","κ","ό","σ","ι","α">>
    @@ <<"2">> :> <<"δ","ι","α","κ","ο","σ","ι","α">>
    @@ <<"3","0","0">> :> <<"τ","ρ","ι","α","κ","ό","σ","ι","α">>
    @@ <<"3">> :> <<"τ","ρ","ι","α","κ","ο","σ","ι","α">>
    @@ <<"4","0","0">> :> <<"τ","ε","τ","ρ","α","κ","ό","σ","ι","α">>
    @@ <<"4">> :> <<"τ","ε","τ","ρ","α","κ","ο","σ","ι","α">>
    @@ <<"5","0","0">> :> <<"π","ε","ν","τ","α","κ","ό","σ","ι","α">>
    @@ <<"5">> :> <<"π","ε","ν","τ","α","κ","ο","σ","ι","α">>
    @@ <<"6","0","0">> :> <<"ε","ξ","α","κ","ό","σ","ι","α">>
    @@ <<"6">> :> <<"ε","ξ","α","κ","ο","σ","ι","α">>
    @@ <<"7","0","0">> :> <<"ε","φ","τ","α","κ","ό","σ","ι","α">>
    @@ <<"7">> :> <<"ε","φ","τ","α","κ","ο","σ","ι","α">>
    @@ <<"8","0","0">> :> <<"ο","χ","τ","α","κ","ό","σ","ι","α">>
    @@ <<"8">> :> <<"ο","χ","τ","α","κ","ο","σ","ι","α">>
    @@ <<"9","0","0">> :> <<"ε","ν","ν","ι","α","κ","ό","σ","ι","α">>
    @@ <<"9">> :> <<"ε","ν","ν","ι","α","κ","ο","σ","ι","α">>

\* _plural_forms: the form a single digit takes before the word for thousands.
plural_forms ==
       <<"0">> :> <<"μ","η","δ","έ","ν">>
    @@ <<"1">> :> <<"έ","ν","α">>
    @@ <<"2">> :> <<"δ","υ","ο">>
    @@ <<"3">> :> <<"τ","ρ","ε","ι","ς">>
    @@ <<"4">> :> <<"τ","έ","σ","σ","ε","ρ","ι","ς">>
    @@ <<"5">> :> <<"π","έ","ν","τ","ε">>
    @@ <<"6">> :> <<"έ","ξ","ι">>
    @@ <<"7">> :> <<"ε","φ","τ","ά">>
    @@ <<"8">> :> <<"ο","χ","τ","ώ">>
    @@ <<"9">> :> <<"ε","ν","ν","ι","ά">>

---------------------------------------------------------------------------
(* digits_to_words.py: the derived prefix tables                           *)

\* A 4-digit table without the entry for one thousand: "1" is treated like the other digits.
prefixes_4digit_no_singular ==
    [key \in DOMAIN prefixes_1digit |-> Strip(plural_forms[key] \o <<" ", "χ", "ι", "λ", "ι", "ά", "δ", "ε", "ς">>)]

\* _prefixes["4digit"]: "1" gives the word for one thousand, every other digit its plural form followed by the word for thousands.
prefixes_4digit ==
    [key \in DOMAIN prefixes_1digit |->
        IF key = <<"1">> THEN <<"χ", "ί", "λ", "ι", "α">>
        ELSE Strip(plural_forms[key] \o <<" ", "χ", "ι", "λ", "ι", "ά", "δ", "ε", "ς">>)]

\* _prefixes["5digit"]: the two-character keys of the 2-digit table followed by "000".
prefixes_5digit ==
    [k \in {key \o <<"0", "0", "0">> : key \in {x \in DOMAIN prefixes_2digit : Len(x) > 1}} |->
        prefixes_2digit[SubSeq(k, 1, Len(k) - 3)] \o <<" ", "χ", "ι", "λ", "ι", "ά", "δ", "ε", "ς">>]

\* _prefixes["6digit"]: every key of the 3-digit table followed by "000"; the value drops its last two characters and takes the ending "ιες".
prefixes_6digit ==
    [k \in {key \o <<"0", "0", "0">> : key \in DOMAIN prefixes_3digit} |->
        LET val == prefixes_3digit[SubSeq(k, 1, Len(k) - 3)]
        IN  SubSeq(val, 1, Len(val) - 2) \o <<"ι", "ε", "ς">> \o <<" ", "χ", "ι", "λ", "ι", "ά", "δ", "ε", "ς">>]

---------------------------------------------------------------------------
(* digits_to_words.py: the converters                                      *)

\* to_plural: the plural forms of 3 and 4 (13, 14, ...) before a magnitude word.
to_plural(w) == ReSub(<<"ε", "ρ", "α">>, <<"ε", "ρ", "ι", "ς">>, ReSub(<<"τ", "ρ", "ί", "α">>, <<"τ", "ρ", "ε", "ί", "ς">>, w))

\* _check_input: TRUE when the length assertion passes.
check_input(number, length, operator) ==
    IF operator \in {"greater_equal", "ge"} THEN Len(number) >= length
    ELSE IF operator \in {"less_equal", "le"} THEN Len(number) <= length
    ELSE Len(number) = length

\* The "special case" loop of every converter: temp_num is the number without
\* the zeros seen so far; broke tells whether the loop met a non-zero digit.
RECURSIVE zero_loop(_, _, _)
zero_loop(number, index, temp_num) ==
    IF index >= Len(number) THEN [temp_num |-> temp_num, broke |-> FALSE]
    ELSE IF number[index + 1] = "0"
         THEN zero_loop(number, index + 1, SliceFrom(number, index + 1))
         ELSE [temp_num |-> temp_num, broke |-> TRUE]

\* The loop followed by "number = temp_num" (2-, 3-, 6-digit and millions converters).
strip_zeros(number) == zero_loop(number, 0, number).temp_num

\* The loop with "number = temp_num" inside the else branch (4- and 5-digit
\* converters): an all-zero number never reaches the assignment.
strip_zeros_on_break(number) ==
    LET r == zero_loop(number, 0, number) IN IF r.broke THEN r.temp_num ELSE number

_convert_1digit(number) ==
    IF ~check_input(number, 1, "None") THEN AssertionError
    ELSE IF number \notin DOMAIN prefixes_1digit THEN ValueError
    ELSE prefixes_1digit[number]

\* A 2-digit converter that returns nothing as soon as the first digit is zero.
_convert_2digit_zero_is_empty(number) ==
    IF ~check_input(number, 2, "None") THEN AssertionError
    ELSE IF number \in DOMAIN prefixes_2digit THEN prefixes_2digit[number]
    ELSE LET first_digit == <<number[1]>>
         IN  IF first_digit = <<"0">> THEN <<>>
             ELSE IF first_digit \notin DOMAIN prefixes_2digit THEN ValueError
             ELSE Strip(Cat(prefixes_2digit[first_digit], _convert_1digit(<<number[2]>>)))

_convert_2digit(number) ==
    IF ~check_input(number, 2, "None") THEN AssertionError
    ELSE IF number \in DOMAIN prefixes_2digit THEN prefixes_2digit[number]
    ELSE LET first_digit == <<number[1]>>
             n == strip_zeros(number)
         IN  IF Len(n) = 1 THEN _convert_1digit(n)
             ELSE IF Len(n) = 0 THEN <<>>
             ELSE IF first_digit \notin DOMAIN prefixes_2digit THEN ValueError
             ELSE Strip(Cat(prefixes_2digit[first_digit], _convert_1digit(<<n[2]>>)))

_convert_3digit(number) ==
    IF ~check_input(number, 3, "None") THEN AssertionError
    ELSE IF number \in DOMAIN prefixes_3digit THEN prefixes_3digit[number]
    ELSE LET n == strip_zeros(number)
         IN  IF Len(n) = 2 THEN _convert_2digit(n)
             ELSE IF Len(n) = 1 THEN _convert_1digit(n)
             ELSE IF Len(n) = 0 THEN <<>>
             ELSE LET first_digit == <<n[1]>>
                  IN  IF first_digit \notin DOMAIN prefixes_3digit THEN ValueError
                      ELSE Strip(Cat(prefixes_3digit[first_digit] \o <<" ">>,
                                     _convert_2digit(SliceFrom(n, 1))))

_convert_4digit(number) ==
    IF ~check_input(number, 4, "None") THEN AssertionError
    ELSE IF number \in DOMAIN prefixes_4digit THEN prefixes_4digit[number]
    ELSE LET first_digit == <<number[1]>>
             n == strip_zeros_on_break(number)
         IN  IF Len(n) = 3 THEN _convert_3digit(n)
             ELSE IF Len(n) = 2 THEN _convert_2digit(n)
             ELSE IF Len(n) = 1 THEN _convert_1digit(n)
             ELSE IF Len(n) = 0 THEN <<>>
             ELSE IF first_digit \notin DOMAIN prefixes_4digit THEN ValueError
             ELSE Strip(Cat(prefixes_4digit[first_digit] \o <<" ">>,
                            _convert_3digit(SliceFrom(n, 1))))

_convert_5digit(number) ==
    IF ~check_input(number, 5, "None") THEN AssertionError
    ELSE IF number \in DOMAIN prefixes_5digit THEN prefixes_5digit[number]
    ELSE LET n == strip_zeros_on_break(number)
         IN  IF Len(n) = 4 THEN _convert_4digit(n)
             ELSE IF Len(n) = 3 THEN _convert_3digit(n)
             ELSE IF Len(n) = 2 THEN _convert_2digit(n)
             ELSE IF Len(n) = 1 THEN _convert_1digit(n)
             ELSE IF Len(n) = 0 THEN <<>>
             ELSE Strip(Cat(Cat(to_plural(_convert_2digit(SliceTo(n, 2))), <<" ", "χ", "ι", "λ", "ι", "ά", "δ", "ε", "ς", " ">>),
                            _convert_3digit(SliceFrom(n, 2))))

_convert_6digit(number) ==
    IF ~check_input(number, 6, "None") THEN AssertionError
    ELSE IF number \in DOMAIN prefixes_6digit THEN prefixes_6digit[number]
    ELSE LET n == strip_zeros(number)
         IN  IF Len(n) = 5 THEN _convert_5digit(n)
             ELSE IF Len(n) = 4 THEN _convert_4digit(n)
             ELSE IF Len(n) = 3 THEN _convert_3digit(n)
             ELSE IF Len(n) = 2 THEN _convert_2digit(n)
             ELSE IF Len(n) = 1 THEN _convert_1digit(n)
             ELSE IF Len(n) = 0 THEN <<>>
             ELSE LET last_3_digits == _convert_3digit(SliceFrom(n, 3))
                  IN  IF IsErr(last_3_digits) THEN last_3_digits
                      ELSE IF SliceTo(n, 3) = <<"0", "0", "0">> THEN last_3_digits
                      ELSE LET first_3_digits == to_plural(_convert_3digit(SliceTo(n, 3)))
                           IN  Strip(Cat(Cat(first_3_digits, <<" ", "χ", "ι", "λ", "ι", "ά", "δ", "ε", "ς", " ">>), last_3_digits))

\* A millions converter without the loop that drops leading zeros.
_convert_more_than7_less_than10_digits_keep_zeros(number) ==
    IF ~check_input(number, 7, "greater_equal") THEN AssertionError
    ELSE IF ~check_input(number, 9, "less_equal") THEN AssertionError
    ELSE IF Len(number) = 7 /\ number[1] = "1"
         THEN Cat(<<"έ", "ν", "α", " ", "ε", "κ", "α", "τ", "ο", "μ", "μ", "ύ", "ρ", "ι", "ο", " ">>, _convert_6digit(SliceFrom(number, 1)))
    ELSE IF Len(number) = 7
         THEN Strip(Cat(Cat(_convert_1digit(SliceTo(number, 1)), <<" ", "ε", "κ", "α", "τ", "ο", "μ", "μ", "ύ", "ρ", "ι", "α", " ">>),
                        _convert_6digit(SliceFrom(number, 1))))
    ELSE IF Len(number) = 8
         THEN Strip(Cat(Cat(_convert_2digit(SliceTo(number, 2)), <<" ", "ε", "κ", "α", "τ", "ο", "μ", "μ", "ύ", "ρ", "ι", "α", " ">>),
                        _convert_6digit(SliceFrom(number, 2))))
    ELSE Strip(Cat(Cat(_convert_3digit(SliceTo(number, 3)), <<" ", "ε", "κ", "α", "τ", "ο", "μ", "μ", "ύ", "ρ", "ι", "α", " ">>),
                   _convert_6digit(SliceFrom(number, 3))))

_convert_more_than7_less_than10_digits(number) ==
    IF ~check_input(number, 7, "greater_equal") THEN AssertionError
    ELSE IF ~check_input(number, 9, "less_equal") THEN AssertionError
    ELSE IF Len(number) = 7 /\ number[1] = "1"
         THEN Cat(<<"έ", "ν", "α", " ", "ε", "κ", "α", "τ", "ο", "μ", "μ", "ύ", "ρ", "ι", "ο", " ">>, _convert_6digit(SliceFrom(number, 1)))
    ELSE LET n == strip_zeros(number)
         IN  IF Len(n) = 6 THEN Strip(_convert_6digit(n))
             ELSE IF Len(n) = 5 THEN Strip(_convert_5digit(n))
             ELSE IF Len(n) = 4 THEN Strip(_convert_4digit(n))
             ELSE IF Len(n) = 3 THEN Strip(_convert_3digit(n))
             ELSE IF Len(n) = 2 THEN Strip(_convert_2digit(n))
             ELSE IF Len(n) = 1 THEN Strip(_convert_1digit(n))
             ELSE IF Len(n) = 0 THEN <<>>
             ELSE IF Len(n) = 7
                  THEN Strip(Cat(Cat(_convert_1digit(SliceTo(n, 1)), <<" ", "ε", "κ", "α", "τ", "ο", "μ", "μ", "ύ", "ρ", "ι", "α", " ">>),
                                 _convert_6digit(SliceFrom(n, 1))))
             ELSE IF Len(n) = 8
                  THEN Strip(Cat(Cat(_convert_2digit(SliceTo(n, 2)), <<" ", "ε", "κ", "α", "τ", "ο", "μ", "μ", "ύ", "ρ", "ι", "α", " ">>),
                                 _convert_6digit(SliceFrom(n, 2))))
             ELSE Strip(Cat(Cat(_convert_3digit(SliceTo(n, 3)), <<" ", "ε", "κ", "α", "τ", "ο", "μ", "μ", "ύ", "ρ", "ι", "α", " ">>),
                            _convert_6digit(SliceFrom(n, 3))))

_convert_more_than10_less_than13_digits(number) ==
    IF ~check_input(number, 10, "greater_equal") THEN AssertionError
    ELSE IF ~check_input(number, 12, "less_equal") THEN AssertionError
    ELSE IF Len(number) = 10 /\ number[1] = "1"
         THEN Cat(<<"έ", "ν", "α", " ", "δ", "ι", "σ", "ε", "κ", "α", "τ", "ο", "μ", "μ", "ύ", "ρ", "ι", "ο", " ">>,
                  _convert_more_than7_less_than10_digits(SliceFrom(number, 1)))
    ELSE IF Len(number) = 10
         THEN Strip(Cat(Cat(_convert_1digit(SliceTo(number, 1)), <<" ", "δ", "ι", "σ", "ε", "κ", "α", "τ", "ο", "μ", "μ", "ύ", "ρ", "ι", "α", " ">>),
                        _convert_more_than7_less_than10_digits(SliceFrom(number, 1))))
    ELSE IF Len(number) = 11
         THEN Strip(Cat(Cat(_convert_2digit(SliceTo(number, 2)), <<" ", "δ", "ι", "σ", "ε", "κ", "α", "τ", "ο", "μ", "μ", "ύ", "ρ", "ι", "α", " ">>),
                        _convert_more_than7_less_than10_digits(SliceFrom(number, 2))))
    ELSE Strip(Cat(Cat(_convert_3digit(SliceTo(number, 3)), <<" ", "δ", "ι", "σ", "ε", "κ", "α", "τ", "ο", "μ", "μ", "ύ", "ρ", "ι", "α", " ">>),
                   _convert_more_than7_less_than10_digits(SliceFrom(number, 3))))

\* The largest number of digits convert_numbers accepts.
MaxDigits == 12

\* The body of convert_numbers once word = process_word(initial_word) is known.
convert_processed(initial_word, w) ==
    IF ~IsDigitStr(w) THEN initial_word
    ELSE IF Len(w) = 1 THEN _convert_1digit(w)
    ELSE IF Len(w) = 2 THEN _convert_2digit(w)
    ELSE IF Len(w) = 3 THEN _convert_3digit(w)
    ELSE IF Len(w) = 4 THEN _convert_4digit(w)
    ELSE IF Len(w) = 5 THEN _convert_5digit(w)
    ELSE IF Len(w) = 6 THEN _convert_6digit(w)
    ELSE IF 7 <= Len(w) /\ Len(w) <= 9 THEN _convert_more_than7_less_than10_digits(w)
    ELSE IF 10 <= Len(w) /\ Len(w) <= MaxDigits
         THEN _convert_more_than10_less_than13_digits(w)
    ELSE ValueError

\* A convert_numbers that rejects a word that is not a digit string instead of returning it.
convert_numbers_strict(initial_word) ==
    IF ~IsDigitStr(process_word(initial_word, TRUE, TRUE)) THEN ValueError
    ELSE convert_processed(initial_word, process_word(initial_word, TRUE, TRUE))

convert_numbers(initial_word) ==
    convert_processed(initial_word, process_word(initial_word, TRUE, TRUE))

---------------------------------------------------------------------------
(* g2p_greek.py: basic_preprocessing                                       *)

\* " ".join(list) for a list of strings.
RECURSIVE JoinSpace(_)
JoinSpace(list) ==
    IF list = <<>> THEN <<>>
    ELSE IF Len(list) = 1 THEN list[1]
    ELSE list[1] \o <<" ">> \o JoinSpace(Tail(list))

\* re.sub of one of the characters of spaces followed by the character c: the pair becomes c.
RECURSIVE drop_before(_, _, _)
drop_before(s, spaces, c) ==
    IF s = <<>> THEN <<>>
    ELSE IF Len(s) >= 2 /\ s[1] \in spaces /\ s[2] = c
         THEN <<c>> \o drop_before(SliceFrom(s, 2), spaces, c)
    ELSE <<Head(s)>> \o drop_before(Tail(s), spaces, c)

\* re.sub(r"\s\t", "\t", s): a white-space character before a tab is dropped.
sub_space_tab(s) == drop_before(s, whitespace, "\t")

\* The longest prefix of s made of digits only (digits = TRUE) or of no digit (digits = FALSE).
RECURSIVE take_run(_, _)
take_run(s, digits) ==
    IF s = <<>> \/ ((Head(s) \in digit_chars) # digits) THEN <<>>
    ELSE <<Head(s)>> \o take_run(Tail(s), digits)

\* re.split(r"(\d+)", sub_word) without its blank items: the maximal runs of
\* digits and of other characters of a string without white space, in order.
RECURSIVE digit_split(_)
digit_split(s) ==
    IF s = <<>> THEN <<>>
    ELSE <<take_run(s, Head(s) \in digit_chars)>>
         \o digit_split(SliceFrom(s, Len(take_run(s, Head(s) \in digit_chars))))

\* str.endswith(suffix)
EndsWith(s, suffix) ==
    Len(s) >= Len(suffix) /\ SubSeq(s, Len(s) - Len(suffix) + 1, Len(s)) = suffix

\* "for l in word: if l.isdigit(): digit += l"
digits_of(w) == SelectSeq(w, LAMBDA l : l \in digit_chars)

\* What one item w of words adds to new_word; processed_word is the word the
\* item comes from, whose digits the two ordinal cases convert.
item_words(w, processed_word) ==
    IF w[1] \in digit_chars
       /\ (EndsWith(w, <<"ο">>) \/ EndsWith(w, <<"η">>) \/ EndsWith(w, <<"α">>))
    THEN Cat(convert_numbers(digits_of(processed_word)), <<"τ", w[Len(w)], " ">>)
    ELSE IF w[1] \in digit_chars /\ (EndsWith(w, <<"ο", "ς">>) \/ EndsWith(w, <<"ε", "ς">>))
         THEN Cat(convert_numbers(digits_of(processed_word)),
                  <<"τ", w[Len(w) - 1], w[Len(w)], " ">>)
    ELSE w \o <<" ">>

\* "for w in words"
RECURSIVE add_items(_, _, _)
add_items(words, processed_word, new_word) ==
    IF words = <<>> \/ IsErr(new_word) THEN new_word
    ELSE add_items(Tail(words), processed_word,
                   Cat(new_word, item_words(words[1], processed_word)))

\* "for sub_word in word.split()"
RECURSIVE add_sub_words(_, _, _)
add_sub_words(sub_words, processed_word, new_word) ==
    IF sub_words = <<>> \/ IsErr(new_word) THEN new_word
    ELSE add_sub_words(Tail(sub_words), processed_word,
                       add_items(digit_split(sub_words[1]), processed_word, new_word))

\* The body of "for word in word_complex.split()" once the word is processed.
add_processed(processed_word, new_word) ==
    Cat(add_sub_words(Split(processed_word), processed_word, new_word), <<" ">>)

\* "for word in word_complex.split()"
RECURSIVE add_words(_, _)
add_words(words, new_word) ==
    IF words = <<>> \/ IsErr(new_word) THEN new_word
    ELSE add_words(Tail(words), add_processed(process_word(words[1], TRUE, FALSE), new_word))

\* The end of basic_preprocessing: "re.sub(r"\s+", " ", new_word).strip()".
collapse_new_word(new_word) ==
    IF IsErr(new_word) THEN new_word ELSE Strip(CollapseSpaces(new_word))

\* basic_preprocessing from the result of handle_commas on.
expand_words(w) ==
    IF IsErr(w) THEN w
    ELSE collapse_new_word(add_words(Split(handle_hours(Strip(w))), <<>>))

basic_preprocessing(initial_word, to_lower) ==
    expand_words(handle_commas(
        IF to_lower THEN Lower(sub_space_tab(initial_word)) ELSE sub_space_tab(initial_word)))

---------------------------------------------------------------------------
(* digits_to_words.py: convert_sentence                                    *)

\* The exception of a call with a keyword the function does not have.
TypeError == <<"TypeError">>

\* The parameters of process_word.
process_word_parameters == {"word", "keep_only_chars_and_digits", "to_lower"}

\* The keywords of the call of process_word in convert_sentence.
convert_sentence_keywords == {"remove_unknown_chars", "to_lower"}

\* "for word in sentence.split(): final_sent.append(convert_numbers(word))"
\* and " ".join(final_sent): the sentence grows by one converted word.
add_converted(converted, final_sent, first) ==
    IF IsErr(converted) \/ first THEN converted ELSE final_sent \o <<" ">> \o converted

RECURSIVE convert_each(_, _, _)
convert_each(words, final_sent, first) ==
    IF words = <<>> \/ IsErr(final_sent) THEN final_sent
    ELSE convert_each(Tail(words), add_converted(convert_numbers(words[1]), final_sent, first), FALSE)

\* "for char in punctuation: final_sent = re.sub(" " + char, char, final_sent)"
RECURSIVE attach_punctuation(_, _)
attach_punctuation(s, j) ==
    IF j > Len(punctuation) THEN s
    ELSE attach_punctuation(drop_before(s, {" "}, punctuation[j]), j + 1)

\* The four substitutions before that loop: the white space before ".", "?", newline and tab goes.
attach_marks(s) ==
    drop_before(drop_before(drop_before(drop_before(s, whitespace, "."), whitespace, "?"),
                            whitespace, "\n"), whitespace, "\t")

\* The end of convert_sentence, from the converted words joined by spaces.
join_sentence(final_sent) ==
    IF IsErr(final_sent) THEN final_sent
    ELSE CollapseSpaces(ReSub(<<":">>, <<" ">>, attach_punctuation(attach_marks(final_sent), 1)))

\* The exception of the call of process_word, or <<>> when the call is well formed.
call_error == IF convert_sentence_keywords \subseteq process_word_parameters THEN <<>> ELSE TypeError

\* convert_sentence: handle_commas, then the call of process_word, which
\* raises TypeError before process_word runs because remove_unknown_chars is
\* not one of its parameters; the rest of the function would work on the
\* sentence processed with the default of keep_only_chars_and_digits.
convert_sentence(sentence) ==
    IF IsErr(handle_commas(sentence)) THEN handle_commas(sentence)
    ELSE IF call_error # <<>> THEN call_error
    ELSE join_sentence(convert_each(Split(process_word(handle_commas(sentence), TRUE, FALSE)), <<>>, TRUE))

---------------------------------------------------------------------------
(* rules.py: the rule tables                                               *)

\* vowel_phonemes: the phonemes that count as vowels.
vowel_phonemes ==
    {<<"a","0">>, <<"a","1">>, <<"e","0">>, <<"e","1">>, <<"i","0">>, <<"i","1">>, <<"o","0">>, <<"o","1">>, <<"u","0">>, <<"u","1">>}

\* character_rules: the phonemes of each letter (a value with a space holds two phonemes).
character_rules ==
       "α" :> <<"a","0">>
    @@ "ά" :> <<"a","1">>
    @@ "β" :> <<"v">>
    @@ "γ" :> <<"g","h">>
    @@ "δ" :> <<"d","h">>
    @@ "ε" :> <<"e","0">>
    @@ "έ" :> <<"e","1">>
    @@ "ζ" :> <<"z">>
    @@ "η" :> <<"i","0">>
    @@ "ή" :> <<"i","1">>
    @@ "θ" :> <<"t","h">>
    @@ "ι" :> <<"i","0">>
    @@ "ϊ" :> <<"i","0">>
    @@ "ί" :> <<"i","1">>
    @@ "ΐ" :> <<"i","1">>
    @@ "κ" :> <<"k">>
    @@ "λ" :> <<"l">>
    @@ "μ" :> <<"m">>
    @@ "ν" :> <<"n">>
    @@ "ξ" :> <<"k"," ","s">>
    @@ "ο" :> <<"o","0">>
    @@ "ό" :> <<"o","1">>
    @@ "π" :> <<"p">>
    @@ "ρ" :> <<"r">>
    @@ "σ" :> <<"s">>
    @@ "ς" :> <<"s">>
    @@ "τ" :> <<"t">>
    @@ "υ" :> <<"i","0">>
    @@ "ϋ" :> <<"i","0">>
    @@ "ύ" :> <<"i","1">>
    @@ "ΰ" :> <<"i","1">>
    @@ "φ" :> <<"f">>
    @@ "χ" :> <<"h">>
    @@ "ψ" :> <<"p"," ","s">>
    @@ "ω" :> <<"o","0">>
    @@ "ώ" :> <<"o","1">>

\* diphthong_rules: the phonemes of each couple of letters read as one.
diphthong_rules ==
       <<"ο","υ">> :> <<"u","0">>
    @@ <<"ο","ύ">> :> <<"u","1">>
    @@ <<"ο","ϋ">> :> <<"o","0"," ","i","0">>
    @@ <<"ο","ΰ">> :> <<"o","0"," ","i","1">>
    @@ <<"α","ι">> :> <<"e","0">>
    @@ <<"α","ί">> :> <<"e","0">>
    @@ <<"α","ΐ">> :> <<"a","0"," ","i","1">>
    @@ <<"α","ϊ">> :> <<"a","0"," ","i","0">>
    @@ <<"ε","ι">> :> <<"i","0">>
    @@ <<"ε","ί">> :> <<"i","1">>
    @@ <<"ε","ΐ">> :> <<"e","0"," ","i","1">>
    @@ <<"ε","ϊ">> :> <<"e","0"," ","i","0">>
    @@ <<"ο","ι">> :> <<"i","0">>
    @@ <<"ο","ί">> :> <<"i","1">>
    @@ <<"ο","ΐ">> :> <<"o","0"," ","i","1">>
    @@ <<"ο","ϊ">> :> <<"o","0"," ","i","0">>
    @@ <<"τ","ζ">> :> <<"d"," ","z">>
    @@ <<"γ","γ">> :> <<"n","g"," ","g">>
    @@ <<"γ","κ">> :> <<"n","g"," ","g">>
    @@ <<"ν","τ">> :> <<"d">>
    @@ <<"μ","π">> :> <<"b">>
    @@ <<"κ","ι">> :> <<"k","j">>
    @@ <<"τ","σ">> :> <<"t","s">>
    @@ <<"ι","α">> :> <<"j"," ","a","0">>
    @@ <<"ι","ά">> :> <<"j"," ","a","1">>
    @@ <<"ι","ο">> :> <<"i"," ","o","0">>
    @@ <<"ι","ό">> :> <<"i"," ","o","1">>

\* triphthong_rules: the clusters of three characters; no function reads this table.
triphthong_rules ==
       <<"ν","γ","κ">> :> <<"n"," ","g">>
    @@ <<"γ","ι","α">> :> <<"j"," ","a","0">>
    @@ <<"γ","ι","ά">> :> <<"j"," ","a","1">>

\* single_letter_pronounciations: the name of each letter, read when the letter stands alone.
single_letter_pronounciations ==
       "α" :> <<"ά","λ","φ","α">>
    @@ "ά" :> <<"ά","λ","φ","α">>
    @@ "β" :> <<"β","ή","τ","α">>
    @@ "γ" :> <<"γ","ά","μ","μ","α">>
    @@ "δ" :> <<"δ","έ","λ","τ","α">>
    @@ "ε" :> <<"έ","ψ","ι","λ","ο","ν">>
    @@ "έ" :> <<"έ","ψ","ι","λ","ο","ν">>
    @@ "ζ" :> <<"ζ","ή","τ","α">>
    @@ "η" :> <<"η">>
    @@ "ή" :> <<"ή">>
    @@ "θ" :> <<"θ","ή","τ","α">>
    @@ "ι" :> <<"γ","ι","ό","τ","α">>
    @@ "ί" :> <<"γ","ι","ό","τ","α">>
    @@ "ϊ" :> <<"γ","ι","ό","τ","α">>
    @@ "ΐ" :> <<"γ","ι","ό","τ","α">>
    @@ "κ" :> <<"κ","ά","π","α">>
    @@ "λ" :> <<"λ","ά","μ","δ","α">>
    @@ "μ" :> <<"μ","ι">>
    @@ "ν" :> <<"ν","ι">>
    @@ "ξ" :> <<"ξ","ι">>
    @@ "ο" :> <<"ο">>
    @@ "ό" :> <<"ό","μ","ι","κ","ρ","ο","ν">>
    @@ "π" :> <<"π","ι">>
    @@ "ρ" :> <<"ρ","ο">>
    @@ "σ" :> <<"σ","ί","γ","μ","α">>
    @@ "τ" :> <<"τ","ά","φ">>
    @@ "υ" :> <<"ύ","ψ","ι","λ","ο","ν">>
    @@ "ύ" :> <<"ύ","ψ","ι","λ","ο","ν">>
    @@ "ϋ" :> <<"ύ","ψ","ι","λ","ο","ν">>
    @@ "ΰ" :> <<"ύ","ψ","ι","λ","ο","ν">>
    @@ "φ" :> <<"φ","ι">>
    @@ "χ" :> <<"χ","ι">>
    @@ "ψ" :> <<"ψ","ι">>
    @@ "ω" :> <<"ω","μ","έ","γ","α">>
    @@ "ώ" :> <<"ω","μ","έ","γ","α">>
---------------------------------------------------------------------------
(* phoneme_conversion.py: convert_word                                     *)

\* The exception of a dict lookup with a key the dict does not hold: it carries the key and nothing else.
KeyError(key) == <<"KeyError", key>>

\* What a function that returns (word, phonemes) did: raised is <<>> when it
\* returned, and the exception otherwise.
Returned(w, phonemes) == [raised |-> <<>>, word |-> w, phonemes |-> phonemes]
Raised(e, w) == [raised |-> e, word |-> w, phonemes |-> <<>>]

\* The couples of neighbouring characters of a word, in order.
_get_word_couples(w) == [i \in 1..(Len(w) - 1) |-> <<w[i], w[i + 1]>>]

\* "if len(phons) > 0: del phons[-1]"
del_last(phons) == IF Len(phons) > 0 THEN SubSeq(phons, 1, Len(phons) - 1) ELSE phons

\* The couples after a diphthong was read at counter: the next couple keeps its last character only.
after_diphthong(word_couples, counter) ==
    IF counter + 1 <= Len(word_couples)
    THEN [word_couples EXCEPT ![counter + 1] = <<@[Len(@)]>>]
    ELSE word_couples

\* An after_letters that does not look ahead for a diphthong.
after_letters_no_lookahead(word_couples, counter) ==
    IF counter + 1 <= Len(word_couples)
    THEN [word_couples EXCEPT ![counter + 1] = <<@[2]>>]
    ELSE word_couples

\* The couples after the letters of the couple at counter were read one by
\* one: the next couple, unless it is a diphthong, keeps its second character only.
after_letters(word_couples, counter) ==
    IF counter + 1 <= Len(word_couples) /\ word_couples[counter + 1] \notin DOMAIN diphthong_rules
    THEN [word_couples EXCEPT ![counter + 1] = <<@[2]>>]
    ELSE word_couples

\* The positions of a couple whose character has no entry in character_rules.
unknown_positions(couple) == {i \in 1..Len(couple) : couple[i] \notin DOMAIN character_rules}

\* The first character of a couple that has no entry in character_rules.
first_unknown(couple) ==
    couple[CHOOSE i \in unknown_positions(couple) : \A j \in unknown_positions(couple) : i <= j]

\* "for val in word_couples[counter]: phons.append(character_rules[val])"
letter_phonemes(couple) == [i \in 1..Len(couple) |-> character_rules[couple[i]]]

\* The while loop of _check_till_dipthongs (counter is 1-based here).
RECURSIVE check_loop(_, _, _, _)
check_loop(w, word_couples, phons, counter) ==
    IF counter > Len(word_couples) THEN Returned(w, phons)
    ELSE IF word_couples[counter] \in DOMAIN diphthong_rules
         THEN check_loop(w, after_diphthong(word_couples, counter),
                         Append(del_last(phons), diphthong_rules[word_couples[counter]]),
                         counter + 1)
    ELSE IF unknown_positions(word_couples[counter]) # {}
         THEN Raised(KeyError(first_unknown(word_couples[counter])), w)
    ELSE check_loop(w, after_letters(word_couples, counter),
                    phons \o letter_phonemes(word_couples[counter]), counter + 1)

_check_till_dipthongs(w) == check_loop(w, _get_word_couples(w), <<>>, 1)

\* ph.replace("0", "1")
add_intonation(ph) == [i \in 1..Len(ph) |-> IF ph[i] = "0" THEN "1" ELSE ph[i]]

\* The phonemes of a list that are vowel phonemes.
vowel_positions(phonemes) == {i \in 1..Len(phonemes) : phonemes[i] \in vowel_phonemes}

\* A _sanity_check that leaves the only vowel of a word without intonation.
intonate_single_vowel_never(phonemes) == phonemes

\* Part 1 of _sanity_check: the only vowel phoneme of a word gets the intonation.
intonate_single_vowel(phonemes) ==
    IF Cardinality(vowel_positions(phonemes)) = 1
    THEN [i \in 1..Len(phonemes) |->
            IF phonemes[i] \in vowel_phonemes THEN add_intonation(phonemes[i]) ELSE phonemes[i]]
    ELSE phonemes

\* Part 2 of _sanity_check (ph_id is 1-based here): a phoneme equal to the
\* first character of the next one makes the loop skip the next one.  The
\* result holds the new list, or the IndexError of "[0]" on an empty string.
RECURSIVE skip_doubles(_, _, _)
skip_doubles(phonemes, ph_id, new_phonemes) ==
    IF ph_id < Len(phonemes)
    THEN IF phonemes[ph_id + 1] = <<>> THEN Raised(IndexError, <<>>)
         ELSE IF phonemes[ph_id] = <<phonemes[ph_id + 1][1]>>
              THEN skip_doubles(phonemes, ph_id + 2, Append(new_phonemes, phonemes[ph_id]))
              ELSE skip_doubles(phonemes, ph_id + 1, Append(new_phonemes, phonemes[ph_id]))
    ELSE IF ph_id = Len(phonemes) THEN Returned(<<>>, Append(new_phonemes, phonemes[ph_id]))
    ELSE Returned(<<>>, new_phonemes)

\* A _sanity_check without part 2.
_sanity_check_no_collapse(phonemes) == Returned(<<>>, intonate_single_vowel(phonemes))

_sanity_check(phonemes) == skip_doubles(intonate_single_vowel(phonemes), 1, <<>>)

\* The phonemes as convert_word hands them to _sanity_check: " ".join(phons).split(" ").
raw_phonemes(phons) == SplitOn(JoinSpace(phons), " ")

\* An exception stands where a string was expected.
IsRaised(x) == IsErr(x) \/ (Len(x) = 2 /\ x[1] = "KeyError")

\* The end of convert_word: the phonemes after the sanity check, unless it raised.
sanity_checked(w, r) ==
    IF r.raised # <<>> THEN Raised(r.raised, w) ELSE Returned(w, r.phonemes)

\* The result of convert_word from the result of _check_till_dipthongs.
checked(r) ==
    IF r.raised # <<>> THEN r
    ELSE sanity_checked(r.word, _sanity_check(raw_phonemes(r.phonemes)))

\* convert_word from "word, current_phonemes = _check_till_dipthongs(word)" on.
convert_letters(w) == checked(_check_till_dipthongs(w))

RECURSIVE convert_word(_)

\* One pass of the loop over the words a number is read as.
add_word_phonemes(r, out_chars) ==
    IF r.raised # <<>> THEN r.raised ELSE out_chars \o JoinSpace(r.phonemes) \o <<" ">>

\* The loop over the words a number is read as: out += " ".join(convert_word(w)[1]) + " ".
RECURSIVE convert_words(_, _)
convert_words(words, out_chars) ==
    IF words = <<>> \/ IsRaised(out_chars) THEN out_chars
    ELSE convert_words(Tail(words), add_word_phonemes(convert_word(words[1]), out_chars))

\* "return transliterated_word, out.strip().split()"
words_converted(transliterated_word, out_chars) ==
    IF IsRaised(out_chars) THEN Raised(out_chars, transliterated_word)
    ELSE Returned(transliterated_word, Split(Strip(out_chars)))

\* convert_word of a number, once convert_numbers has transliterated it.
convert_transliterated(transliterated_word) ==
    IF IsErr(transliterated_word) THEN Raised(transliterated_word, <<>>)
    ELSE IF Len(Split(transliterated_word)) > 1
         THEN words_converted(transliterated_word, convert_words(Split(transliterated_word), <<>>))
    ELSE convert_letters(transliterated_word)

convert_word(w) ==
    IF IsDigitStr(Strip(w)) THEN convert_transliterated(convert_numbers(Strip(w)))
    ELSE convert_letters(Strip(w))

---------------------------------------------------------------------------
(* dictionary.py: Dictionary                                               *)

\* A dict without items.
empty_dict == [key \in {} |-> <<>>]

\* english_mappings when g2p_greek.english_rules cannot be imported: no entry.
english_mappings == empty_dict

\* The default of N in Dictionary.__init__(path_to_lexicon, N=3); the variable
\* N is the N of the call, handed to _lexicon_lookup.
default_N == 3

\* "self.N = 3": the length of the key get_word_phonemes looks up.
self_N == 3

\* "key = word if len(word) <= N else word[:N]"
lexicon_key(w) == IF Len(w) <= N THEN w ELSE SliceTo(w, N)

\* A dict with one more item: d[key] = value.
SetItem(d, key, value) == (key :> value) @@ d

\* One pass of the loop of _lexicon_lookup over a line with at least one field:
\* the word is filed, with its phonemes, under its key.
file_word(w, phonemes) ==
    IF lexicon_key(w) \in DOMAIN lexicon_dict
    THEN SetItem(lexicon_dict, lexicon_key(w),
                 SetItem(lexicon_dict[lexicon_key(w)], w, phonemes))
    ELSE SetItem(lexicon_dict, lexicon_key(w), (w :> phonemes))

\* One pass of the loop of _lexicon_lookup from the fields of the line.
file_fields(fields) ==
    file_word(Strip(fields[1]), Strip(sub_chars(JoinSpace(Tail(fields)), {"\n"}, <<>>)))

\* The line has no field: line.split()[0] raises IndexError.
IsBlank(line) == Split(line) = <<>>

\* "initial_word + " " + " ".join(phonemes) + "\n""
phonemes_line(initial_word, phonemes) == initial_word \o <<" ">> \o JoinSpace(phonemes) \o <<"\n">>

\* The single letter has no name in either table: a warning, and a line without phonemes.
not_converted(initial_word) == initial_word \o <<" ", "\n">>

\* The line of a single-letter word from the phonemes of the name of the
\* letter; a KeyError raised on the way is caught like the one of the table lookup.
letter_line(r, initial_word) ==
    IF r.raised = <<>> THEN phonemes_line(initial_word, r.phonemes)
    ELSE IF Len(r.raised) = 2 /\ r.raised[1] = "KeyError" THEN not_converted(initial_word)
    ELSE r.raised

\* The name of a single letter: single_letter_pronounciations[word], or
\* english_mappings[word] once the first lookup has raised KeyError.
letter_name(w) ==
    IF Len(w) = 1 /\ w[1] \in DOMAIN single_letter_pronounciations
    THEN single_letter_pronounciations[w[1]]
    ELSE english_mappings[w]

\* The branch of get_word_phonemes for a word of one character besides white space.
single_letter(w, initial_word) ==
    IF (Len(w) = 1 /\ w[1] \in DOMAIN single_letter_pronounciations) \/ w \in DOMAIN english_mappings
    THEN letter_line(convert_word(letter_name(w)), initial_word)
    ELSE not_converted(initial_word)

\* The line of a word from the result of convert_word.
converted_line(r, initial_word) ==
    IF r.raised = <<>> THEN phonemes_line(initial_word, r.phonemes) ELSE r.raised

\* A lookup whose key is one character shorter than the key the words are filed under.
lookup_short_key(w, initial_word) ==
    IF SliceTo(w, self_N - 1) \in DOMAIN lexicon_dict
       /\ w \in DOMAIN lexicon_dict[SliceTo(w, self_N - 1)]
    THEN phonemes_line(initial_word, Split(lexicon_dict[SliceTo(w, self_N - 1)][w]))
    ELSE converted_line(convert_word(w), initial_word)

\* The branch of get_word_phonemes for the other words: the stored phonemes
\* of the word if its key and the word itself are found, those of convert_word otherwise.
lookup(w, initial_word) ==
    IF SliceTo(w, self_N) \in DOMAIN lexicon_dict
       /\ w \in DOMAIN lexicon_dict[SliceTo(w, self_N)]
    THEN phonemes_line(initial_word, Split(lexicon_dict[SliceTo(w, self_N)][w]))
    ELSE converted_line(convert_word(w), initial_word)

\* A get_word_phonemes that takes the first word filed under the key when the word itself is not there.
get_word_phonemes_first_of_bucket(w, initial_word) ==
    IF Len(Strip(w)) = 1 THEN single_letter(w, initial_word)
    ELSE IF SliceTo(w, self_N) \in DOMAIN lexicon_dict
         THEN phonemes_line(initial_word,
                  Split(lexicon_dict[SliceTo(w, self_N)][CHOOSE x \in DOMAIN lexicon_dict[SliceTo(w, self_N)] : TRUE]))
    ELSE lookup(w, initial_word)

get_word_phonemes(w, initial_word) ==
    IF Len(Strip(w)) = 1 THEN single_letter(w, initial_word)
    ELSE lookup(w, initial_word)

---------------------------------------------------------------------------
(* The callers: a word is typed character by character (or pasted whole),  *)
(* then one of the functions is applied to it.                             *)

\* Largest number of non-zero digits in a typed digit string.
MaxNonZero == 4

\* Largest length of a typed word that contains a character other than a digit.
MaxMixedLen == 3

\* Largest length of a word given to handle_commas.
MaxCommaLen == 6

\* Largest length of a word given to handle_hours.
MaxHoursLen == 5

\* Digits typed one at a time: zero, the digit of the singular forms, the digit of the plural "τρείς".
digit_choices == {"0", "1", "3"}

\* Characters other than digits that a word given to convert_numbers may hold.
other_chars == {"a", " ", "!"}

\* Numbers of the documentation that need other digits.
reference_inputs == {<<"2", "1", "8", "4">>, <<"7", "8", "7", "9">>, <<"3", "8", "7">>}

comma_alphabet == {"1", "2", "a", " ", ","}

hours_alphabet == {"0", "1", "3", "5", ":", " "}

NonZeroCount(s) == Cardinality({i \in 1..Len(s) : s[i] \in digit_chars \ {"0"}})

\* The record of a call: the function, its argument and what it returned or raised.
no_call == [fn |-> "", word |-> <<>>, result |-> <<>>]

\* The first call made is kept on record.
first_of(fn, w, result) ==
    IF first_call.fn = "" THEN [fn |-> fn, word |-> w, result |-> result] ELSE first_call

\* No word yet, no result yet, no lexicon loaded and no call made.
Init ==
    /\ word = <<>> /\ out = <<>> /\ pc = "input"
    /\ lexicon_dict = empty_dict /\ N = default_N /\ first_call = no_call

TypeDigit(d) ==
    /\ pc = "input"
    /\ Len(word) <= MaxDigits
    /\ IsDigitStr(word) \/ Len(word) < MaxMixedLen
    /\ d # "0" => NonZeroCount(word) < MaxNonZero
    /\ word' = Append(word, d)
    /\ UNCHANGED <<out, pc, lexicon_dict, N, first_call>>

TypeOther(c) ==
    /\ pc = "input"
    /\ Len(word) < MaxMixedLen
    /\ word' = Append(word, c)
    /\ UNCHANGED <<out, pc, lexicon_dict, N, first_call>>

TypeReference(r) ==
    /\ pc = "input"
    /\ word = <<>>
    /\ word' = r
    /\ UNCHANGED <<out, pc, lexicon_dict, N, first_call>>

ConvertNumbers ==
    /\ pc = "input"
    /\ out' = convert_numbers(word)
    /\ pc' = "convert_numbers"
    /\ UNCHANGED <<word, lexicon_dict, N, first_call>>

Next ==
    \/ \E d \in digit_choices : TypeDigit(d)
    \/ \E c \in other_chars : TypeOther(c)
    \/ \E r \in reference_inputs : TypeReference(r)
    \/ ConvertNumbers

Spec == Init /\ [][Next]_vars

TypeCommaChar(c) ==
    /\ pc = "input"
    /\ Len(word) < MaxCommaLen
    /\ word' = Append(word, c)
    /\ UNCHANGED <<out, pc, lexicon_dict, N, first_call>>

HandleCommas ==
    /\ pc = "input"
    /\ out' = handle_commas(word)
    /\ pc' = "handle_commas"
    /\ UNCHANGED <<word, lexicon_dict, N, first_call>>

NextCommas ==
    \/ \E c \in comma_alphabet : TypeCommaChar(c)
    \/ HandleCommas

SpecCommas == Init /\ [][NextCommas]_vars

TypeHoursChar(c) ==
    /\ pc = "input"
    /\ Len(word) < MaxHoursLen
    /\ word' = Append(word, c)
    /\ UNCHANGED <<out, pc, lexicon_dict, N, first_call>>

HandleHours ==
    /\ pc = "input"
    /\ out' = handle_hours(word)
    /\ pc' = "handle_hours"
    /\ UNCHANGED <<word, lexicon_dict, N, first_call>>

NextHours ==
    \/ \E c \in hours_alphabet : TypeHoursChar(c)
    \/ HandleHours

SpecHours == Init /\ [][NextHours]_vars

\* Largest length of a word given to basic_preprocessing.
MaxPreLen == 4

\* Digits, the letters of the ordinal endings "ο" and "ος", the letters of the
\* key "απο" of __basic_substitutes, a punctuation mark and the space.
pre_alphabet == {"1", "0", "ο", "ς", "α", "π", "!", " "}

TypePreChar(c) ==
    /\ pc = "input"
    /\ Len(word) < MaxPreLen
    /\ word' = Append(word, c)
    /\ UNCHANGED <<out, pc, lexicon_dict, N, first_call>>

BasicPreprocessing ==
    /\ pc = "input"
    /\ out' = basic_preprocessing(word, TRUE)
    /\ pc' = "basic_preprocessing"
    /\ UNCHANGED <<word, lexicon_dict, N, first_call>>

NextPre ==
    \/ \E c \in pre_alphabet : TypePreChar(c)
    \/ BasicPreprocessing

SpecPre == Init /\ [][NextPre]_vars

\* Largest length of a sentence given to convert_sentence.
MaxSentenceLen == 4

sentence_alphabet == {"9", "a", ".", "?", ",", " "}

TypeSentenceChar(c) ==
    /\ pc = "input"
    /\ Len(word) < MaxSentenceLen
    /\ word' = Append(word, c)
    /\ UNCHANGED <<out, pc, lexicon_dict, N, first_call>>

ConvertSentence ==
    /\ pc = "input"
    /\ out' = convert_sentence(word)
    /\ pc' = "convert_sentence"
    /\ UNCHANGED <<word, lexicon_dict, N, first_call>>

NextSentence ==
    \/ \E c \in sentence_alphabet : TypeSentenceChar(c)
    \/ ConvertSentence

SpecSentence == Init /\ [][NextSentence]_vars

\* Largest length of a word given to convert_word.
MaxWordLen == 4

\* Letters with and without a part in a diphthong, a final sigma, a character
\* without a rule and a digit.
phoneme_alphabet == {"α", "ι", "ο", "υ", "κ", "τ", "ς", "x", "1"}

TypeLetter(c) ==
    /\ pc = "input"
    /\ Len(word) < MaxWordLen
    /\ word' = Append(word, c)
    /\ UNCHANGED <<out, pc, lexicon_dict, N, first_call>>

ConvertWord ==
    /\ pc = "input"
    /\ out' = convert_word(word)
    /\ pc' = "convert_word"
    /\ first_call' = first_of(pc', word, out')
    /\ UNCHANGED <<word, lexicon_dict, N>>

NextPhonemes ==
    \/ \E c \in phoneme_alphabet : TypeLetter(c)
    \/ ConvertWord

SpecPhonemes == Init /\ [][NextPhonemes]_vars

\* Largest length of a word with a cluster of three characters.
MaxClusterLen == 4

\* The characters of the clusters of triphthong_rules.
cluster_alphabet == {"ν", "γ", "κ", "ι", "α", "ά"}

TypeClusterChar(c) ==
    /\ pc = "input"
    /\ Len(word) < MaxClusterLen
    /\ word' = Append(word, c)
    /\ UNCHANGED <<out, pc, lexicon_dict, N, first_call>>

NextClusters ==
    \/ \E c \in cluster_alphabet : TypeClusterChar(c)
    \/ ConvertWord

SpecClusters == Init /\ [][NextClusters]_vars

\* Largest number of words in a lexicon.
MaxEntries == 2

\* Largest length of a word looked up in a lexicon.
MaxLookupLen == 4

\* Lines of a lexicon file: words of one to four letters, the longest filed
\* under the same key as the one of three letters, with phonemes no rule
\* gives; a second line for a word; a line without fields.
lexicon_lines ==
    { <<"α", " ", "x", " ", "y", "\n">>,
      <<"α", "β", " ", "x", " ", "y", "\n">>,
      <<"α", "β", "γ", " ", "x", " ", "y", "\n">>,
      <<"α", "β", "γ", "α", " ", "x", " ", " ", "y", "\n">>,
      <<"α", "β", "γ", "α", " ", "z", "\n">>,
      <<"\n">> }

lookup_alphabet == {"α", "β", "γ", " "}

\* The words of the lexicon.
lexicon_words == UNION {DOMAIN lexicon_dict[key] : key \in DOMAIN lexicon_dict}

\* Dictionary(path_to_lexicon) starts to read the file.
InitLexicon ==
    /\ word = <<>> /\ out = <<>> /\ pc = "_lexicon_lookup"
    /\ lexicon_dict = empty_dict /\ N = default_N /\ first_call = no_call

\* One pass of the loop of _lexicon_lookup: a line without fields ends the
\* construction with an IndexError, any other line files its word.
ReadLine(line) ==
    /\ pc = "_lexicon_lookup"
    /\ Cardinality(lexicon_words) < MaxEntries
    /\ IF IsBlank(line)
       THEN pc' = "IndexError" /\ UNCHANGED lexicon_dict
       ELSE lexicon_dict' = file_fields(Split(line)) /\ UNCHANGED pc
    /\ UNCHANGED <<word, out, N, first_call>>

\* The file is read: the Dictionary is constructed.
EndOfFile ==
    /\ pc = "_lexicon_lookup"
    /\ pc' = "input"
    /\ UNCHANGED <<word, out, lexicon_dict, N, first_call>>

TypeLookupChar(c) ==
    /\ pc = "input"
    /\ Len(word) < MaxLookupLen
    /\ word' = Append(word, c)
    /\ UNCHANGED <<out, pc, lexicon_dict, N, first_call>>

\* A get_word_phonemes that files in the lexicon the phonemes it had to derive.
GetWordPhonemesAndStore ==
    /\ pc = "input"
    /\ out' = get_word_phonemes(word, word)
    /\ pc' = "get_word_phonemes"
    /\ first_call' = first_of(pc', word, out')
    /\ lexicon_dict' = IF word \in lexicon_words \/ IsRaised(out') THEN lexicon_dict
                       ELSE file_word(word, Strip(SliceFrom(out', Len(word))))
    /\ UNCHANGED <<word, N>>

\* get_word_phonemes(word): initial_word is None, so it is the word.
GetWordPhonemes ==
    /\ pc = "input"
    /\ out' = get_word_phonemes(word, word)
    /\ pc' = "get_word_phonemes"
    /\ first_call' = first_of(pc', word, out')
    /\ UNCHANGED <<word, lexicon_dict, N>>

NextLexicon ==
    \/ \E line \in lexicon_lines : ReadLine(line)
    \/ EndOfFile
    \/ \E c \in lookup_alphabet : TypeLookupChar(c)
    \/ GetWordPhonemes

SpecLexicon == InitLexicon /\ [][NextLexicon]_vars

\* Largest length of a word made of letters with and without a name.
MaxLetterLen == 2

\* A letter with a name of several letters, a letter whose name is the
\* letter itself, a Latin letter and a digit (neither has a name nor a rule)
\* and a space.
letter_alphabet == {"α", "η", "x", "1", " "}

TypeLookupLetter(c) ==
    /\ pc = "input"
    /\ Len(word) < MaxLetterLen
    /\ word' = Append(word, c)
    /\ UNCHANGED <<out, pc, lexicon_dict, N, first_call>>

NextLetters ==
    \/ \E line \in lexicon_lines : ReadLine(line)
    \/ EndOfFile
    \/ \E c \in letter_alphabet : TypeLookupLetter(c)
    \/ GetWordPhonemes

SpecLetters == InitLexicon /\ [][NextLetters]_vars

\* Largest key length handed to the constructor.
MaxN == 4

\* Dictionary(path_to_lexicon, N) starts to read the file.
InitAnyN ==
    /\ word = <<>> /\ out = <<>> /\ pc = "_lexicon_lookup"
    /\ lexicon_dict = empty_dict /\ N \in 1..MaxN /\ first_call = no_call

SpecAnyN == InitAnyN /\ [][NextLexicon]_vars

\* Largest length of a word of a sequence of calls.
MaxSessionLen == 2

session_alphabet == {"α", "β"}

TypeSessionChar(c) ==
    /\ pc = "input"
    /\ Len(word) < MaxSessionLen
    /\ word' = Append(word, c)
    /\ UNCHANGED <<out, pc, lexicon_dict, N, first_call>>

\* The call has returned or raised: the caller goes on to the next call.
NextCall ==
    /\ pc \in {"get_word_phonemes", "convert_word"}
    /\ pc' = "input"
    /\ word' = <<>>
    /\ out' = <<>>
    /\ UNCHANGED <<lexicon_dict, N, first_call>>

NextSession ==
    \/ \E line \in lexicon_lines : ReadLine(line)
    \/ EndOfFile
    \/ \E c \in session_alphabet : TypeSessionChar(c)
    \/ GetWordPhonemes
    \/ ConvertWord
    \/ NextCall

SpecSession == InitLexicon /\ [][NextSession]_vars

TypeOK ==
    /\ pc \in {"input", "convert_numbers", "handle_commas", "handle_hours", "convert_word",
              "basic_preprocessing", "convert_sentence",
              "_lexicon_lookup", "IndexError", "get_word_phonemes"}
    /\ pc = "input" => out = <<>>
    /\ N \in 1..MaxN
    /\ first_call.fn \in {"", "get_word_phonemes", "convert_word"}

---------------------------------------------------------------------------
(* Properties of convert_numbers (specification Spec)                      *)

\* The word is a string of 1 to MaxDigits decimal digits and convert_numbers has been applied to it.
Converted == pc = "convert_numbers" /\ IsDigitStr(word) /\ Len(word) <= MaxDigits

HasNonZero(s) == \E i \in 1..Len(s) : s[i] # "0"

\* The digit string padded with zeros on the left to MaxDigits digits.
Padded(s) == [i \in 1..MaxDigits |-> IF i <= MaxDigits - Len(s) THEN "0" ELSE s[i - (MaxDigits - Len(s))]]

BillionsGroup(s) == SubSeq(Padded(s), 1, 3)
MillionsGroup(s) == SubSeq(Padded(s), 4, 6)
ThousandsGroup(s) == SubSeq(Padded(s), 7, 9)

\* The white-space-delimited words of a result.
Words(s) == Range(Split(s))

NoSpaceArtifacts(s) ==
    /\ s = Strip(s)
    /\ \A i \in 1..Len(s) - 1 : ~(s[i] = " " /\ s[i + 1] = " ")

\* C1: for every digit string of length 1 to 12 that is "0" or has a
\* non-zero digit, convert_numbers returns (raises nothing) a non-empty string.
C1_NonEmptyResult ==
    (Converted /\ (word = <<"0">> \/ HasNonZero(word))) => (~IsErr(out) /\ out # <<>>)

C1_Witness ==
    /\ Converted /\ Len(word) = MaxDigits /\ word[1] = "0" /\ HasNonZero(word)
    /\ ~IsErr(out) /\ out # <<>>

\* C2: "113" is rendered "εκατόν δεκατρία" and "2184" is rendered
\* "δύο χιλιάδες εκατόν ογδόντα τέσσερα".
C2_ReferenceRenderings ==
    pc = "convert_numbers" =>
        /\ word = <<"1", "1", "3">> => out = <<"ε", "κ", "α", "τ", "ό", "ν", " ", "δ", "ε", "κ", "α", "τ", "ρ", "ί", "α">>
        /\ word = <<"2", "1", "8", "4">> => out = <<"δ", "ύ", "ο", " ", "χ", "ι", "λ", "ι", "ά", "δ", "ε", "ς", " ", "ε", "κ", "α", "τ", "ό", "ν", " ", "ο", "γ", "δ", "ό", "ν", "τ", "α", " ", "τ", "έ", "σ", "σ", "ε", "ρ", "α">>

\* C3: "0" gives "μηδέν", "10" gives "δέκα" and "1000" gives "χίλια", a
\* single word with nothing appended for the all-zero remainder.
C3_ExactWords ==
    pc = "convert_numbers" =>
        /\ word = <<"0">> => out = <<"μ", "η", "δ", "έ", "ν">>
        /\ word = <<"1", "0">> => out = <<"δ", "έ", "κ", "α">>
        /\ word = <<"1", "0", "0", "0">> => out = <<"χ", "ί", "λ", "ι", "α">>

C3_Witness == pc = "convert_numbers" /\ word = <<"1", "0", "0", "0">> /\ out = <<"χ", "ί", "λ", "ι", "α">>

\* C4: for every digit string of length 7 to 12 with no leading zero, the
\* singular "εκατομμύριο" is used exactly when the millions group has the
\* value 1, and the plural "εκατομμύρια" exactly when it has another non-zero
\* value, also inside a billions-scale number.
C4_MillionsNumber ==
    (Converted /\ Len(word) >= 7 /\ word[1] # "0") =>
        /\ <<"ε", "κ", "α", "τ", "ο", "μ", "μ", "ύ", "ρ", "ι", "ο">> \in Words(out) <=> MillionsGroup(word) = <<"0", "0", "1">>
        /\ <<"ε", "κ", "α", "τ", "ο", "μ", "μ", "ύ", "ρ", "ι", "α">> \in Words(out) <=> MillionsGroup(word) \notin {<<"0", "0", "0">>, <<"0", "0", "1">>}

\* C5: a digit string of length 2 to 12 with leading zeros and a non-zero
\* digit is converted like the same string without its leading zeros.
C5_LeadingZerosIgnored ==
    (Converted /\ Len(word) >= 2 /\ word[1] = "0" /\ HasNonZero(word)) =>
        out = convert_numbers(strip_zeros(word))

\* C6: the result for a digit string of length 1 to 12 has no leading space,
\* no trailing space and no two consecutive spaces.
C6_NoSpaceArtifacts == (Converted /\ ~IsErr(out)) => NoSpaceArtifacts(out)

\* C7 as stated: every input that is not a string of 1 to 12 decimal digits
\* (empty, with a non-digit character, longer than 12 digits) is rejected
\* with an error and never returned as a result.
C7_RejectsInvalidInput ==
    (pc = "convert_numbers" /\ ~(IsDigitStr(word) /\ Len(word) <= MaxDigits)) => IsErr(out)

\* C7 as amended: a digit string longer than 12 digits is rejected with
\* ValueError; the empty string and every string that contains a letter are
\* not rejected but returned unchanged.
C7_RejectsOnlyLongNumbers ==
    pc = "convert_numbers" =>
        /\ (IsDigitStr(word) /\ Len(word) > MaxDigits) => out = ValueError
        /\ (word = <<>> \/ \E i \in 1..Len(word) : word[i] \in lower_letters) => out = word

C7_Witness ==
    /\ pc = "convert_numbers" /\ IsDigitStr(word) /\ Len(word) = MaxDigits + 1
    /\ out = ValueError

\* C8: for every digit string of length 1 to 12 with no leading zero, a
\* thousands word appears in the result iff digits 4-6 from the right are not
\* all zero, a millions word iff digits 7-9 are not all zero and a billions
\* word iff digits 10-12 are not all zero.
C8_MagnitudeWordIffGroupNonZero ==
    (Converted /\ word[1] # "0" /\ ~IsErr(out)) =>
        /\ (Words(out) \cap {<<"χ", "ί", "λ", "ι", "α">>, <<"χ", "ι", "λ", "ι", "ά", "δ", "ε", "ς">>} # {})
               <=> ThousandsGroup(word) # <<"0", "0", "0">>
        /\ (Words(out) \cap {<<"ε", "κ", "α", "τ", "ο", "μ", "μ", "ύ", "ρ", "ι", "ο">>, <<"ε", "κ", "α", "τ", "ο", "μ", "μ", "ύ", "ρ", "ι", "α">>} # {})
               <=> MillionsGroup(word) # <<"0", "0", "0">>
        /\ (Words(out) \cap {<<"δ", "ι", "σ", "ε", "κ", "α", "τ", "ο", "μ", "μ", "ύ", "ρ", "ι", "ο">>, <<"δ", "ι", "σ", "ε", "κ", "α", "τ", "ο", "μ", "μ", "ύ", "ρ", "ι", "α">>} # {})
               <=> BillionsGroup(word) # <<"0", "0", "0">>

C8_Witness ==
    /\ Converted /\ word[1] # "0" /\ ~IsErr(out)
    /\ BillionsGroup(word) # <<"0", "0", "0">> /\ MillionsGroup(word) = <<"0", "0", "0">>
    /\ ThousandsGroup(word) # <<"0", "0", "0">>
    /\ Words(out) \cap {<<"δ", "ι", "σ", "ε", "κ", "α", "τ", "ο", "μ", "μ", "ύ", "ρ", "ι", "ο">>, <<"δ", "ι", "σ", "ε", "κ", "α", "τ", "ο", "μ", "μ", "ύ", "ρ", "ι", "α">>} # {}
    /\ Words(out) \cap {<<"ε", "κ", "α", "τ", "ο", "μ", "μ", "ύ", "ρ", "ι", "ο">>, <<"ε", "κ", "α", "τ", "ο", "μ", "μ", "ύ", "ρ", "ι", "α">>} = {}
    /\ Words(out) \cap {<<"χ", "ί", "λ", "ι", "α">>, <<"χ", "ι", "λ", "ι", "ά", "δ", "ε", "ς">>} # {}

---------------------------------------------------------------------------
(* Properties of handle_commas (SpecCommas) and handle_hours (SpecHours)   *)

\* The part of the word before its first comma and the part after it.
BeforeComma(s) == SliceTo(s, Find(s, ","))
AfterComma(s) == SliceFrom(s, Find(s, ",") + 1)

\* The word is a digit string, white space, a comma, white space, a digit string.
IsDecimalForm(s) ==
    /\ Find(s, ",") >= 0
    /\ IsDigitStr(RStrip(BeforeComma(s)))
    /\ IsDigitStr(LStrip(AfterComma(s)))

\* C9: for non-empty digit strings a and b and any amount of white space on
\* either side of the comma, handle_commas returns a + " κόμμα " + b.
C9_DecimalCommaSpoken ==
    (pc = "handle_commas" /\ IsDecimalForm(word)) =>
        out = RStrip(BeforeComma(word)) \o <<" ", "κ", "ό", "μ", "μ", "α", " ">> \o LStrip(AfterComma(word))

\* The minutes as handle_hours is meant to render them.
Minutes(m) == IF m = <<"1", "5">> THEN <<"τ", "έ", "τ", "α", "ρ", "τ", "ο">> ELSE IF m = <<"3", "0">> THEN <<"μ", "ι", "σ", "ή">> ELSE m

\* C10: a token h:m with exactly one colon and non-empty h and m becomes
\* h + " και " + m', with h unchanged whatever digits it contains and m' the
\* word for a quarter (m = "15"), for a half (m = "30") or m itself; a token
\* with no colon is returned unchanged; in any other token each colon is
\* replaced by a space (compared up to surrounding white space).
C10_HoursRewritten ==
    pc = "handle_hours" =>
        LET parts == SplitOn(word, ":")
        IN  IF Len(parts) = 1 THEN out = word
            ELSE IF Len(parts) = 2 /\ parts[1] # <<>> /\ parts[2] # <<>>
                 THEN out = parts[1] \o <<" ", "κ", "α", "ι", " ">> \o Minutes(parts[2])
                 ELSE Strip(out) = Strip(sub_chars(word, {":"}, <<" ">>))

---------------------------------------------------------------------------
(* Properties of basic_preprocessing (specification SpecPre) and of        *)
(* convert_sentence (specification SpecSentence)                           *)

\* The endings of the ordinals written with digits.
ordinal_endings == {<<"ο">>, <<"η">>, <<"α">>, <<"ο", "ς">>, <<"ε", "ς">>}

\* The string is a run of digits immediately followed by an ordinal ending.
IsOrdinalToken(s) ==
    \E k \in 1..(Len(s) - 1) : IsDigitStr(SliceTo(s, k)) /\ SliceFrom(s, k) \in ordinal_endings

\* C11: for a token that is a run of digits immediately followed by one of
\* the endings "ο", "η", "α", "ος", "ες", basic_preprocessing returns the one
\* word convert_numbers(digits) + "τ" + ending.
C11_OrdinalIsOneWord ==
    (pc = "basic_preprocessing" /\ IsOrdinalToken(word)) =>
        out = Cat(convert_numbers(digits_of(word)),
                  <<"τ">> \o SliceFrom(word, Len(digits_of(word))))

\* C12: for an input without digit, comma or colon, basic_preprocessing
\* applied to its own output changes nothing.
C12_PreprocessingIdempotent ==
    (pc = "basic_preprocessing" /\ Range(word) \cap (digit_chars \cup {",", ":"}) = {}) =>
        /\ ~IsErr(out)
        /\ basic_preprocessing(out, TRUE) = out

\* C13: for every sentence, convert_sentence returns without raising; in the
\* string it returns no word is a number still written in digits, no white
\* space stands before a period or a question mark, and no two white-space
\* characters are neighbours.
C13_SentenceConverted ==
    pc = "convert_sentence" =>
        /\ out \notin {TypeError, IndexError, ValueError}
        /\ \A i \in 1..Len(Split(out)) : ~IsDigitStr(Split(out)[i])
        /\ \A i \in 1..(Len(out) - 1) :
              ~(out[i] \in whitespace /\ out[i + 1] \in whitespace \cup {".", "?"})

---------------------------------------------------------------------------
(* Properties of convert_word (specification SpecPhonemes)                 *)

\* Every character of the word has an entry in character_rules.
OverRuleAlphabet(s) == \A i \in 1..Len(s) : s[i] \in DOMAIN character_rules

\* The phonemes as the scan of the rule tables emits them, before the sanity check.
EmittedPhonemes(s) == raw_phonemes(_check_till_dipthongs(s).phonemes)

\* The vowel phonemes of a list, in order.
Vowels(phonemes) == SelectSeq(phonemes, LAMBDA ph : ph \in vowel_phonemes)

\* The pattern occurs somewhere in the string.
Occurs(pat, s) == \E i \in 1..Len(s) : MatchAt(s, pat, i)

\* The closed set of phoneme symbols listed at the head of rules.py.
available_phonemes ==
    { <<"a","0">>, <<"a","1">>, <<"b">>, <<"d">>, <<"d","h">>, <<"e","0">>, <<"e","1">>,
      <<"f">>, <<"g">>, <<"g","h">>, <<"h">>, <<"h","s">>, <<"i","0">>, <<"i","1">>,
      <<"j">>, <<"k">>, <<"k","j">>, <<"l">>, <<"m">>, <<"n">>, <<"n","g">>,
      <<"o","0">>, <<"o","1">>, <<"p">>, <<"r">>, <<"s">>, <<"t">>, <<"t","h">>,
      <<"t","s">>, <<"u","0">>, <<"u","1">>, <<"v">>, <<"z">> }

\* C14: for a non-empty word made only of characters of character_rules, of
\* any length from 1 up, convert_word returns a non-empty list of phonemes
\* in which no phoneme is the empty string.
C14_PhonemesNotEmpty ==
    (pc = "convert_word" /\ word # <<>> /\ OverRuleAlphabet(word)) =>
        /\ out.raised = <<>>
        /\ out.phonemes # <<>>
        /\ \A i \in 1..Len(out.phonemes) : out.phonemes[i] # <<>>

\* C15: for a word that is not a number and holds a character without a rule,
\* convert_word raises an error whose text names that character and the
\* word, and returns no phonemes.
C15_UnknownCharacterError ==
    (pc = "convert_word" /\ ~IsDigitStr(word) /\ ~OverRuleAlphabet(word)) =>
        /\ out.raised # <<>>
        /\ \E i \in 1..Len(word) :
              word[i] \notin DOMAIN character_rules /\ word[i] \in Range(Tail(out.raised))
        /\ Occurs(word, Tail(out.raised))

\* C16: for a word over the alphabet of the rule tables, no two neighbouring
\* phonemes of the list convert_word returns are the same string.
C16_NoAdjacentDuplicates ==
    (pc = "convert_word" /\ OverRuleAlphabet(word)) =>
        /\ out.raised = <<>>
        /\ \A i \in 1..(Len(out.phonemes) - 1) : out.phonemes[i] # out.phonemes[i + 1]

\* C17: for a word over the alphabet of the rule tables, if the scan emits
\* exactly one vowel phoneme then the returned list holds that vowel, once,
\* with a code that ends in "1"; otherwise the vowel phonemes of the returned
\* list are those the scan emitted, with their stress markers untouched.
C17_SingleVowelStressed ==
    (pc = "convert_word" /\ OverRuleAlphabet(word)) =>
        /\ out.raised = <<>>
        /\ IF Cardinality(vowel_positions(EmittedPhonemes(word))) = 1
           THEN /\ Len(Vowels(out.phonemes)) = 1
                /\ Vowels(out.phonemes)[1][1] = Vowels(EmittedPhonemes(word))[1][1]
                /\ Vowels(out.phonemes)[1][2] = "1"
           ELSE Vowels(out.phonemes) = Vowels(EmittedPhonemes(word))

\* C17 witness: a word of several letters whose only vowel phoneme the scan
\* emitted without stress has been converted.
C17_Witness ==
    /\ pc = "convert_word"
    /\ OverRuleAlphabet(word)
    /\ Len(word) >= 3
    /\ Cardinality(vowel_positions(EmittedPhonemes(word))) = 1
    /\ Vowels(EmittedPhonemes(word))[1][2] = "0"
    /\ Len(out.phonemes) >= 2

\* C18: for a word over the alphabet of the rule tables, every phoneme of the
\* list convert_word returns is one of the 33 symbols of available_phonemes
\* (stated for the words of two letters or more, those the scan of the rule
\* tables reads; C14 is about the shorter ones).
C18_ClosedPhonemeSet ==
    (pc = "convert_word" /\ OverRuleAlphabet(word) /\ Len(word) >= 2) =>
        /\ out.raised = <<>>
        /\ \A i \in 1..Len(out.phonemes) : out.phonemes[i] \in available_phonemes

---------------------------------------------------------------------------
(* Properties of Dictionary.get_word_phonemes (specification SpecLexicon)  *)

\* The phonemes the lexicon stores for one of its words.
StoredPhonemes(w) ==
    lexicon_dict[CHOOSE key \in DOMAIN lexicon_dict : w \in DOMAIN lexicon_dict[key]][w]

\* C19: for a lexicon built with N = 3 and a word of any length (1 character
\* or more) that has an entry in it, get_word_phonemes returns the stored
\* phonemes of the word.
C19_StoredPhonemesReturned ==
    (pc = "get_word_phonemes" /\ word \in lexicon_words) =>
        out = word \o <<" ">> \o StoredPhonemes(word) \o <<"\n">>

\* C19, amended: for a lexicon built with N = 3 and a word of two or more
\* characters that has an entry in it, get_word_phonemes returns the stored
\* phonemes of the word.
C19_StoredPhonemesOfLongerWords ==
    (pc = "get_word_phonemes" /\ word \in lexicon_words /\ Len(word) >= 2) =>
        out = word \o <<" ">> \o StoredPhonemes(word) \o <<"\n">>

\* C19 witness: a word longer than its key has been found in the lexicon.
C19_Witness ==
    /\ pc = "get_word_phonemes"
    /\ word \in lexicon_words
    /\ Len(word) > self_N
    /\ Cardinality(lexicon_words) >= 2

\* C20: for a word of any length, single characters included, that has no
\* entry in the lexicon, get_word_phonemes returns the phonemes convert_word
\* returns for the word.
C20_FallbackIsConvertWord ==
    (pc = "get_word_phonemes" /\ word \notin lexicon_words) =>
        out = converted_line(convert_word(word), word)

\* C20, amended: for a word that has no entry in the lexicon and is not a
\* single character (white space apart), get_word_phonemes returns the
\* phonemes convert_word returns for the word.
C20_FallbackOfLongerWords ==
    (pc = "get_word_phonemes" /\ word \notin lexicon_words /\ Len(Strip(word)) # 1) =>
        out = converted_line(convert_word(word), word)

\* C20 witness: the key of the word is in the lexicon, the word is not, and
\* the rules have given phonemes.
C20_Witness ==
    /\ pc = "get_word_phonemes"
    /\ word \notin lexicon_words
    /\ SliceTo(word, self_N) \in DOMAIN lexicon_dict
    /\ Len(Strip(word)) >= 2
    /\ convert_word(word).raised = <<>>

---------------------------------------------------------------------------
(* Further properties of convert_numbers (specification Spec)              *)

AllZeros(s) == \A i \in 1..Len(s) : s[i] = "0"

\* C27: for every all-zero digit string of length 2 to 12, convert_numbers
\* returns the empty string (no "μηδέν", no bare magnitude word).
C27_AllZerosGiveEmptyString ==
    (Converted /\ Len(word) >= 2 /\ AllZeros(word)) => out = <<>>

\* The rendering of the 3-digit group t.
GroupWords(t) == _convert_3digit(t)

\* The word is a thousands prefix of 1 to 3 digits with no leading zero
\* followed by three digits that are not "000".
IsThousandsWithRest(s) ==
    /\ Len(s) \in 4..6
    /\ IsDigitStr(s)
    /\ s[1] # "0"
    /\ HasNonZero(SliceFrom(s, Len(s) - 3))

\* C28: for a 4-, 5- or 6-digit string p + t with no leading zero and
\* t not "000", convert_numbers(p + t) is convert_numbers(p + "000"), a
\* space and the rendering of the 3-digit group t.
C28_ThousandsPhraseIndependentOfRest ==
    (pc = "convert_numbers" /\ IsThousandsWithRest(word)) =>
        out = convert_numbers(SliceTo(word, Len(word) - 3) \o <<"0", "0", "0">>)
                \o <<" ">> \o GroupWords(SliceFrom(word, Len(word) - 3))

---------------------------------------------------------------------------
(* Further properties of handle_commas (specification SpecCommas)          *)

comma_word == {"κ", "ό", "μ", "α"}

\* The characters of a string of the input alphabet that are neither white
\* space nor a comma nor a letter of an inserted "κόμμα".
KeptCharacters(s) == SelectSeq(s, LAMBDA c : c \notin whitespace \cup comma_word \cup {","})

\* C29: the characters of the output of handle_commas that are neither white
\* space nor part of an inserted "κόμμα" are the non-comma, non-white-space
\* characters of the input, in the same order.
C29_OnlyCommasAndSpacesRewritten ==
    (pc = "handle_commas" /\ ~IsErr(out)) => KeptCharacters(out) = KeptCharacters(word)

---------------------------------------------------------------------------
(* Further properties of convert_word (specification SpecPhonemes)         *)

\* The reference scan from position i: a known digraph is read whole and the
\* scan advances by two, any other character is read alone.
RECURSIVE ReferenceScan(_, _)
ReferenceScan(s, i) ==
    IF i > Len(s) THEN <<>>
    ELSE IF i < Len(s) /\ <<s[i], s[i + 1]>> \in DOMAIN diphthong_rules
         THEN <<diphthong_rules[<<s[i], s[i + 1]>>]>> \o ReferenceScan(s, i + 2)
    ELSE <<character_rules[s[i]]>> \o ReferenceScan(s, i + 1)

\* C24: for every word of two or more characters over the alphabet of the
\* rule tables, the phoneme list of _check_till_dipthongs is the output of
\* the reference left-to-right scan (digraph: advance by two, otherwise one
\* character: advance by one), and convert_word returns its sanity check.
C24_ScanIsLeftToRight ==
    (pc = "convert_word" /\ Len(word) >= 2 /\ OverRuleAlphabet(word)) =>
        /\ _check_till_dipthongs(word).phonemes = ReferenceScan(word, 1)
        /\ out = checked(Returned(word, ReferenceScan(word, 1)))

\* C24 witness: a word in which two digraphs overlap has been converted.
C24_Witness ==
    /\ pc = "convert_word"
    /\ OverRuleAlphabet(word)
    /\ out.raised = <<>>
    /\ \E i \in 1..Len(word) - 2 :
        /\ <<word[i], word[i + 1]>> \in DOMAIN diphthong_rules
        /\ <<word[i + 1], word[i + 2]>> \in DOMAIN diphthong_rules

\* The tokens the collapse step keeps from position i on: the first token is
\* kept, and a token is dropped exactly when the token before it was kept and
\* is, as a whole, the first character of the token.
RECURSIVE CollapseFrom(_, _, _)
CollapseFrom(phonemes, i, kept) ==
    IF i > Len(phonemes) THEN <<>>
    ELSE IF kept /\ phonemes[i - 1] = <<phonemes[i][1]>>
         THEN CollapseFrom(phonemes, i + 1, FALSE)
    ELSE <<phonemes[i]>> \o CollapseFrom(phonemes, i + 1, TRUE)

\* The tokens the collapse step is given: the emitted phonemes after part 1 of _sanity_check.
Intonated(s) == intonate_single_vowel(EmittedPhonemes(s))

RECURSIVE TrigraphScan(_, _)
TrigraphScan(s, i) ==
    IF i > Len(s) THEN <<>>
    ELSE IF i + 2 <= Len(s) /\ SubSeq(s, i, i + 2) \in DOMAIN triphthong_rules
         THEN <<triphthong_rules[SubSeq(s, i, i + 2)]>> \o TrigraphScan(s, i + 3)
    ELSE IF i < Len(s) /\ <<s[i], s[i + 1]>> \in DOMAIN diphthong_rules
         THEN <<diphthong_rules[<<s[i], s[i + 1]>>]>> \o TrigraphScan(s, i + 2)
    ELSE <<character_rules[s[i]]>> \o TrigraphScan(s, i + 1)

HasCluster(s) == \E i \in 1..Len(s) - 2 : SubSeq(s, i, i + 2) \in DOMAIN triphthong_rules

\* C26 (specification SpecClusters): for every word over the alphabet of the
\* rule tables that contains a cluster of triphthong_rules, convert_word
\* emits the phonemes of the trigraph rule for the cluster, before any
\* digraph or single-character rule that matches inside it.
C26_TrigraphHasPriority ==
    (pc = "convert_word" /\ OverRuleAlphabet(word) /\ HasCluster(word)) =>
        out = checked(Returned(word, TrigraphScan(word, 1)))

---------------------------------------------------------------------------
(* Further properties of Dictionary.get_word_phonemes                      *)

\* C21 (specification SpecLetters): get_word_phonemes never fails: for every
\* word, also one of two or more characters with a character that has no
\* rule and that is not in the lexicon, it returns a line (at worst the word
\* with no phonemes) and raises no error.
C21_LookupNeverFails ==
    pc = "get_word_phonemes" =>
        /\ ~IsRaised(out)
        /\ MatchAt(out, word \o <<" ">>, 1)
        /\ out[Len(out)] = "\n"

\* The phonemes of the name of the letter the word consists of.
NamePhonemes(w) == convert_word(single_letter_pronounciations[w[1]]).phonemes

\* The line gives the word and the phonemes, of which there is at least one
\* and none is the empty string.
IsLineOfPhonemes(line, w, phonemes) ==
    /\ line = phonemes_line(w, phonemes)
    /\ phonemes # <<>>
    /\ \A i \in 1..Len(phonemes) : phonemes[i] # <<>>

\* C22 (specification SpecLetters): for a word of one character that has a
\* name in single_letter_pronounciations, get_word_phonemes returns a
\* non-empty sequence of phonemes, those of the name of the letter; for one
\* with no name there nor in english_mappings it returns the word with no
\* phonemes and raises nothing.
C22_SingleLetterPhonemes ==
    (pc = "get_word_phonemes" /\ Len(word) = 1) =>
        IF word[1] \in DOMAIN single_letter_pronounciations
        THEN IsLineOfPhonemes(out, word, NamePhonemes(word))
        ELSE word \notin DOMAIN english_mappings => out = not_converted(word)

\* C23 (specification SpecSession): whatever calls of get_word_phonemes and
\* convert_word were made before, a call leaves the lexicon built at
\* construction unchanged (the rule tables are constants of the module: no
\* function assigns to them), and the result of a call for a word is the
\* result the first call of the same function returned for that word.
C23_CallsLeaveLexiconUnchanged ==
    [][/\ pc # "_lexicon_lookup" => lexicon_dict' = lexicon_dict
       /\ (pc' = first_call'.fn /\ word' = first_call'.word) => out' = first_call'.result]_vars

\* C23 witness: with words in the lexicon, a call that had to derive the
\* phonemes has returned after a different first call.
C23_Witness ==
    /\ pc \in {"get_word_phonemes", "convert_word"}
    /\ first_call.fn # ""
    /\ first_call.fn # pc \/ first_call.word # word
    /\ lexicon_words # {}
    /\ word \notin lexicon_words
    /\ Len(word) >= 2

\* C30 (specification SpecAnyN): for every N given to the constructor and
\* every word of two or more characters stored in the lexicon, the key
\* get_word_phonemes computes for the word is the key _lexicon_lookup filed
\* it under, so the stored entry is found and returned.
C30_LookupKeyIsBuildKey ==
    (pc = "get_word_phonemes" /\ word \in lexicon_words /\ Len(word) >= 2) =>
        /\ SliceTo(word, self_N) \in DOMAIN lexicon_dict
        /\ word \in DOMAIN lexicon_dict[SliceTo(word, self_N)]
        /\ out = word \o <<" ">> \o StoredPhonemes(word) \o <<"\n">>

=============================================================================
